---- MODULE Spec2Model ----
(***************************************************************************)
(* Whale-consensus detection engine of WhaleConsensusMonitor               *)
(* (src/src/services/WhaleConsensusMonitor.ts).                            *)
(*                                                                         *)
(* Time is counted in minutes: Date.now(), blockTime and                   *)
(* purchase.timestamp are all expressed in minutes, so the consensus       *)
(* window is 15.  SOL amounts are counted in milli-SOL.                    *)
(* Every await of the TypeScript code is a point where the model lets      *)
(* other callbacks run; the code between two awaits is one atomic step.    *)
(***************************************************************************)
EXTENDS FiniteSets, Integers, Sequences, TLC

VARIABLES
  now,                      \* Date.now()
  chain,                    \* the transactions the RPC endpoints can report
  instants,                 \* the times at which the monitor is observed
  starts,                   \* how often the operator calls startMonitoring
  configFile,               \* content of manualWallets.json
  db,                       \* qualified wallets held by WalletService
  isMonitoring,
  monitoringInterval,       \* handle stored by startMonitoring, or Null
  activeIntervals,          \* interval timers that have not been cleared
  pendingTimeouts,          \* initial-check timeouts not yet fired
  startsInFlight,           \* startMonitoring calls awaiting loadQualifiedWallets
  startCount,               \* number of startMonitoring calls that passed the guard
  cycleCount,               \* number of detectWhaleConsensus calls so far
  MIN_PURCHASE_USD,
  CHECK_INTERVAL,
  MIN_WHALES_FOR_CONSENSUS,
  manualWallets,
  qualifiedWallets,
  allMonitoredWallets,
  lastCheckedTimes,
  recentWhalePurchases,     \* Map tokenMint -> TokenPurchase[] (values)
  tokenOrder,               \* the keys of recentWhalePurchases in insertion order
  alertedConsensus,
  cycles,                   \* the detectWhaleConsensus calls in flight
  sink,                     \* the calls of triggerWhaleConsensusAlert, in order
  suppressed,               \* history: consensus found again and not re-alerted
  tokenApi,                 \* the outcomes a request to the token API can have
  tokenInfoCache,
  emitted,                  \* the alerts written by triggerWhaleConsensusAlert, in order
  instantTimeouts,          \* timeouts of instantEnhancedConsensusCheck not yet fired,
                            \* oldest first: the price each was set with
  currentPrice,             \* currentPrice of RealTimeSolPriceService
  instantChecks,            \* the instantEnhancedConsensusCheck calls in flight
  purchaseAlerts,           \* the individual purchase alerts, in order
  marketCapCache,
  socialAnalysisCache,
  enableSocialAnalysis,
  call                      \* the last call of a function under study and its result

timerVars == <<isMonitoring, monitoringInterval, activeIntervals, pendingTimeouts,
               startsInFlight, startCount>>
configVars == <<MIN_PURCHASE_USD, CHECK_INTERVAL, MIN_WHALES_FOR_CONSENSUS,
                manualWallets, qualifiedWallets, allMonitoredWallets>>
envVars == <<chain, instants, starts, configFile, db, tokenApi>>
detectorVars == <<recentWhalePurchases, tokenOrder, alertedConsensus, sink, suppressed>>
cacheVars == <<marketCapCache, socialAnalysisCache, enableSocialAnalysis>>
serviceVars == <<currentPrice, instantChecks, purchaseAlerts, cacheVars, call>>
vars == <<now, envVars, timerVars, configVars, lastCheckedTimes, detectorVars,
          cycles, cycleCount, tokenInfoCache, emitted, instantTimeouts, serviceVars>>

----------------------------------------------------------------------------
(* Bounds of the model *)

MaxCycles == 2     \* detection cycles started in one behaviour

(* Program constants *)

consensusTimeWindow == 15       \* 15 * 60 * 1000 ms, in minutes
SOL_PRICE_USD == 200
BATCH_SIZE == 5
SIGNATURE_LIMIT == 15
DEFAULT_MIN_WHALES == 2
MIN_CHECK_INTERVAL == 30000
INITIAL_SOL_PRICE == 200        \* currentPrice of RealTimeSolPriceService when constructed

Null == "null"

\* A Date: valid with its time, or the invalid Date made of an infinite time.
Date(t) == [valid |-> TRUE, time |-> t]
InvalidDate == [valid |-> FALSE, time |-> 0]

StartOfTime == consensusTimeWindow + 1

Wallets == {"W1", "W2", "W3"}
Tokens == {"T", "U"}

\* The key under which a purchase is stored when the token balance that grew
\* carries no mint.
Undefined == "undefined"

\* The keys recentWhalePurchases and tokenInfoCache can have.
MintKeys == Tokens \cup {Undefined}

----------------------------------------------------------------------------
(* Sequence helpers *)

Min2(a, b) == IF a <= b THEN a ELSE b
Max2(a, b) == IF a >= b THEN a ELSE b

RECURSIVE SumSeq(_)
SumSeq(s) == IF s = <<>> THEN 0 ELSE Head(s) + SumSeq(Tail(s))

RECURSIVE MinSeq(_)
MinSeq(s) == IF Len(s) = 1 THEN s[1] ELSE Min2(Head(s), MinSeq(Tail(s)))

RECURSIVE MaxSeq(_)
MaxSeq(s) == IF Len(s) = 1 THEN s[1] ELSE Max2(Head(s), MaxSeq(Tail(s)))

Range(s) == {s[i] : i \in DOMAIN s}

----------------------------------------------------------------------------
(* The RPC side: signatures and transactions of a wallet *)

\* A transaction of the chain: the wallet that signed it, the token whose
\* balance of that wallet grew (mint: Null when no token balance of the wallet
\* grew, Undefined when the balance that grew has no mint), the change of the
\* wallet's SOL balance (solSpent, milli-SOL, negative when SOL came in) and its
\* blockTime.
Tx(sig, w, mint, t, sol) ==
  [signature |-> sig, wallet |-> w, mint |-> mint, blockTime |-> t, solSpent |-> sol]

Newer(a, b) ==
  \/ a.blockTime > b.blockTime
  \/ a.blockTime = b.blockTime /\ a.signature > b.signature

RECURSIVE NewestFirst(_)
NewestFirst(S) ==
  IF S = {} THEN <<>>
  ELSE LET x == CHOOSE a \in S : \A b \in S \ {a} : Newer(a, b)
       IN <<x>> \o NewestFirst(S \ {x})

Slice(s, n) == SubSeq(s, 1, Min2(n, Len(s)))

\* getSignaturesForAddress with limit 15: the confirmed transactions of the
\* wallet, newest first.
SignaturesOf(w, t) ==
  Slice(NewestFirst({tx \in chain : tx.wallet = w /\ tx.blockTime <= t}),
        SIGNATURE_LIMIT)

\* turboGetSolanaSignatures, answered at time t: the result of the first
\* endpoint that answers, [] when none does.
turboGetSolanaSignatures(w, t) == {SignaturesOf(w, t), <<>>}

\* calculateSolSpent: the balance change, never negative.
calculateSolSpent(tx) == Max2(0, tx.solSpent)

\* What the token API answers with.
TokenApiOutcomes == {"ok", "error"}

Throws == "throws"

\* turboGetTokenInfo: the cached entry; without one the symbol the token API
\* gives, or when the request fails the fallback made of the first characters
\* of the mint (tokenMint.substring throws when there is no mint).  The result
\* is cached.
turboGetTokenInfo(tokenMint, cache, api) ==
  IF cache[tokenMint] # Null THEN cache[tokenMint]
  ELSE IF api = "ok" THEN "symbol"
  ELSE IF tokenMint = Undefined THEN Throws
  ELSE "mint prefix"

\* The cache after turboGetTokenInfo was called for the mints of `asked`.
CacheAfter(cache, asked, api) ==
  [m \in MintKeys |->
     IF m \in asked /\ turboGetTokenInfo(m, cache, api) # Throws
     THEN turboGetTokenInfo(m, cache, api)
     ELSE cache[m]]

\* getTokenMetrics: the metrics of the token API, null when the request fails.
getTokenMetrics(api) == IF api = "ok" THEN "metrics" ELSE Null

\* A floor that a purchase has to exceed.
ExceedsFloor(amountUsd, floor) == amountUsd > floor

\* purchase.amountUsd >= this.MIN_PURCHASE_USD
ReachesFloor(amountUsd, floor) == amountUsd >= floor

\* parseRealTokenPurchase: a purchase when a token balance of the wallet grew
\* and SOL was spent, null otherwise and when it throws (<<purchase>> or <<>>).
\* tokenInfo is what turboGetTokenInfo gives for the mint.
parseRealTokenPurchase(tx, walletAddress, tokenInfo) ==
  IF tx.mint = Null THEN <<>>
  ELSE IF calculateSolSpent(tx) > 0 /\ tokenInfo # Throws
       THEN <<[walletAddress |-> walletAddress,
               tokenMint |-> tx.mint,
               amountSol |-> calculateSolSpent(tx),
               amountUsd |-> (calculateSolSpent(tx) * SOL_PRICE_USD) \div 1000,
               signature |-> tx.signature,
               timestamp |-> tx.blockTime]>>
       ELSE <<>>

\* recentSignatures of checkWalletForConsensus.
RecentSignatures(signatures, lastChecked) ==
  SelectSeq(Slice(signatures, SIGNATURE_LIMIT), LAMBDA sig : sig.blockTime > lastChecked)

\* latestTimestamp after the synchronous part of every transaction promise.
LatestTimestamp(recent, lastChecked) ==
  IF recent = <<>> THEN lastChecked
  ELSE Max2(lastChecked, MaxSeq([i \in DOMAIN recent |-> recent[i].blockTime]))

\* The mints turboGetTokenInfo is asked for by the parsing of the transactions
\* of `recent` whose details arrived.
AskedMints(recent, ok) ==
  {recent[i].mint : i \in {j \in DOMAIN recent : /\ recent[j].signature \in ok
                                                  /\ recent[j].mint # Null
                                                  /\ calculateSolSpent(recent[j]) > 0}}

\* The purchases a wallet check returns: in the order of recentSignatures, those
\* whose details arrived (ok), that parse to a purchase and reach the floor.
\* info is what turboGetTokenInfo gives for each mint.
RECURSIVE ValidPurchases(_, _, _, _, _)
ValidPurchases(recent, ok, walletAddress, floor, info) ==
  IF recent = <<>> THEN <<>>
  ELSE LET tx == Head(recent)
           purchase == parseRealTokenPurchase(tx, walletAddress,
                         IF tx.mint \in MintKeys THEN info[tx.mint] ELSE Null)
           rest == ValidPurchases(Tail(recent), ok, walletAddress, floor, info)
       IN IF /\ tx.signature \in ok
             /\ purchase # <<>>
             /\ ReachesFloor(purchase[1].amountUsd, floor)
          THEN purchase \o rest
          ELSE rest

----------------------------------------------------------------------------
(* The consensus window *)

\* A filter that drops a purchase the moment its age reaches the window.
InWindowExclusive(p, currentTime) == (currentTime - p.timestamp) < consensusTimeWindow

\* The filter of addPurchasesToConsensusTracking and analyzeWhaleConsensus.
InWindow(p, currentTime) == (currentTime - p.timestamp) <= consensusTimeWindow

FilterWindow(purchases, currentTime) ==
  SelectSeq(purchases, LAMBDA p : InWindow(p, currentTime))

\* addPurchasesToConsensusTracking, one purchase after the other; st holds the
\* map values (map) and the map keys in insertion order (order).
RECURSIVE addPurchasesToConsensusTracking(_, _, _)
addPurchasesToConsensusTracking(purchases, st, currentTime) ==
  IF purchases = <<>> THEN st
  ELSE LET purchase == Head(purchases)
           tokenMint == purchase.tokenMint
           has == tokenMint \in Range(st.order)
           tokenPurchases == Append(IF has THEN st.map[tokenMint] ELSE <<>>, purchase)
           filteredPurchases == FilterWindow(tokenPurchases, currentTime)
       IN addPurchasesToConsensusTracking(
            Tail(purchases),
            [map |-> [st.map EXCEPT ![tokenMint] = filteredPurchases],
             order |-> IF has THEN st.order ELSE Append(st.order, tokenMint)],
            currentTime)

\* A Map in which a later purchase of a wallet replaces its earlier one.
RECURSIVE UniqueWhalesLastWins(_, _)
UniqueWhalesLastWins(recentPurchases, acc) ==
  IF recentPurchases = <<>> THEN acc
  ELSE LET purchase == Head(recentPurchases)
           has == \E i \in DOMAIN acc : acc[i].walletAddress = purchase.walletAddress
       IN UniqueWhalesLastWins(
            Tail(recentPurchases),
            IF has
            THEN [i \in DOMAIN acc |->
                    IF acc[i].walletAddress = purchase.walletAddress THEN purchase ELSE acc[i]]
            ELSE Append(acc, purchase))

\* The uniqueWhales Map of analyzeWhaleConsensus: the first purchase of each
\* wallet, in the order of first occurrence.
RECURSIVE UniqueWhales(_, _)
UniqueWhales(recentPurchases, acc) ==
  IF recentPurchases = <<>> THEN acc
  ELSE LET purchase == Head(recentPurchases)
           has == \E i \in DOMAIN acc : acc[i].walletAddress = purchase.walletAddress
       IN UniqueWhales(Tail(recentPurchases),
                       IF has THEN acc ELSE Append(acc, purchase))

\* Unique whales of all the stored purchases, expired ones included.
UniquePurchasesUnfiltered(purchases, currentTime) == UniqueWhales(purchases, <<>>)

\* Unique whales that stand or fall with the first stored purchase of the
\* wallet: one per wallet first, the window afterwards.
UniquePurchasesOfFirstStored(purchases, currentTime) ==
  FilterWindow(UniqueWhales(purchases, <<>>), currentTime)

\* Every purchase within the window counted, also the second one of a wallet.
UniquePurchasesPerEvent(purchases, currentTime) == FilterWindow(purchases, currentTime)

\* uniquePurchases of analyzeWhaleConsensus: the purchases within the window,
\* one per wallet.
UniquePurchases(purchases, currentTime) ==
  UniqueWhales(FilterWindow(purchases, currentTime), <<>>)

\* Math.min(...timestamps) / Math.max(...timestamps) wrapped in a Date; of no
\* timestamps they are +-Infinity, an invalid Date.
FirstPurchaseTime(uniquePurchases) ==
  IF uniquePurchases = <<>> THEN InvalidDate
  ELSE Date(MinSeq([i \in DOMAIN uniquePurchases |-> uniquePurchases[i].timestamp]))

LastPurchaseTime(uniquePurchases) ==
  IF uniquePurchases = <<>> THEN InvalidDate
  ELSE Date(MaxSeq([i \in DOMAIN uniquePurchases |-> uniquePurchases[i].timestamp]))

TotalAmountSol(uniquePurchases) ==
  SumSeq([i \in DOMAIN uniquePurchases |-> uniquePurchases[i].amountSol])

\* A total that takes the SOL amounts for USD amounts.
TotalAmountUsdOfSol(uniquePurchases) ==
  SumSeq([i \in DOMAIN uniquePurchases |-> uniquePurchases[i].amountSol])

TotalAmountUsd(uniquePurchases) ==
  SumSeq([i \in DOMAIN uniquePurchases |-> uniquePurchases[i].amountUsd])

\* The WhaleConsensus record built for a qualifying token.  (In consensusTokens
\* and in sink the record also carries, as history, the stored purchases of the
\* token at the moment it was evaluated: window.)
BuildConsensus(tokenMint, uniquePurchases) ==
  [tokenMint |-> tokenMint,
   whales |-> uniquePurchases,
   totalWhales |-> Len(uniquePurchases),
   totalAmountSol |-> TotalAmountSol(uniquePurchases),
   totalAmountUsd |-> TotalAmountUsd(uniquePurchases),
   firstPurchaseTime |-> FirstPurchaseTime(uniquePurchases),
   lastPurchaseTime |-> LastPurchaseTime(uniquePurchases),
   consensusStrength |-> Len(uniquePurchases) * 100 + TotalAmountUsd(uniquePurchases)]

\* An id that also tells the time of the last purchase.
ConsensusIdWithTime(consensus) ==
  <<consensus.tokenMint, consensus.totalWhales, consensus.lastPurchaseTime>>

\* consensusId = `${tokenMint}_${totalWhales}`
ConsensusId(consensus) == <<consensus.tokenMint, consensus.totalWhales>>

\* consensusTokens.sort((a, b) => b.consensusStrength - a.consensusStrength):
\* a stable sort, strongest first.
RECURSIVE SortByStrength(_)
SortByStrength(s) ==
  IF s = <<>> THEN <<>>
  ELSE LET sorted == SortByStrength(SubSeq(s, 1, Len(s) - 1))
           x == s[Len(s)]
           keep == SelectSeq(sorted, LAMBDA y : y.consensusStrength >= x.consensusStrength)
           after == SelectSeq(sorted, LAMBDA y : y.consensusStrength < x.consensusStrength)
       IN keep \o <<x>> \o after

----------------------------------------------------------------------------
(* Configuration and the wallet list *)

\* A falsy number (0, or a missing value, written 0) gives way to the default.
OrDefault(value, default) == IF value = 0 THEN default ELSE value

RECURSIVE Dedup(_, _)
Dedup(s, acc) ==
  IF s = <<>> THEN acc
  ELSE Dedup(Tail(s), IF Head(s) \in Range(acc) THEN acc ELSE Append(acc, Head(s)))

\* this.manualWallets after loadManualWallets: the enabled entries of the file.
EnabledManualWallets(file) ==
  LET enabled == SelectSeq(file.manualWallets, LAMBDA w : w.enabled)
  IN [i \in DOMAIN enabled |-> enabled[i].address]

\* combineWalletsForMonitoring: qualified wallets first, then manual ones, each
\* address once.
combineWalletsForMonitoring(qualified, manual, file) ==
  Dedup((IF file.settings.enableQualifiedWallets THEN qualified ELSE <<>>)
        \o (IF file.settings.enableManualWallets THEN manual ELSE <<>>), <<>>)

\* chunkArray(array, size)
RECURSIVE chunkArray(_, _)
chunkArray(array, size) ==
  IF array = <<>> THEN <<>>
  ELSE <<Slice(array, size)>> \o chunkArray(SubSeq(array, Min2(size, Len(array)) + 1, Len(array)), size)

----------------------------------------------------------------------------
(* A detection cycle: one call of detectWhaleConsensus *)

\* A cycle runs in one of two slots: the model lets a cycle overlap with one
\* other cycle.
CycleIds == {1, 2}

\* An instant check of the enhanced monitor runs in one of two slots.
InstantIds == {1, 2}

IdleCycle ==
  [pc |-> "idle", batches |-> <<>>, batchIndex |-> 0,
   launchedAt |-> 0, lastChecked |-> [w \in Wallets |-> 0], checking |-> {},
   currentTime |-> 0, idx |-> 0, pending |-> <<>>, observed |-> <<>>,
   consensusTokens |-> <<>>, fireIdx |-> 0, currentSolPrice |-> 0]

\* The outcome of a synchronous stretch of a cycle: the cycle's new position and
\* the detector state it leaves.
Outcome(cy, alerted, snk, sup) ==
  [cy |-> cy, alerted |-> alerted, sink |-> snk, suppressed |-> sup]

\* A gate that lets every consensus through.
NotYetAlertedAlways(consensusId, alerted) == TRUE

\* !this.alertedConsensus.has(consensusId)
NotYetAlerted(consensusId, alerted) == consensusId \notin alerted

\* A call that is lost.
TriggerDropped(snk, consensus, currentTime) == snk

\* The call of triggerWhaleConsensusAlert: the alert reaches the sink.  (As
\* history the entry tells the time of the evaluation and the number of the
\* startMonitoring call the monitor runs under.)
Trigger(snk, consensus, currentTime) ==
  Append(snk, [alert |-> consensus, currentTime |-> currentTime, run |-> startCount])

\* An alert that is written only when its metrics arrived.
EmitIfEnriched(log, consensus, tokenMetrics) ==
  IF tokenMetrics = Null THEN log
  ELSE Append(log, [alert |-> consensus, tokenMetrics |-> tokenMetrics])

\* triggerWhaleConsensusAlert after getTokenMetrics: the alert is written to the
\* console and to the log, with the token metrics when there are any.
Emit(log, consensus, tokenMetrics) ==
  Append(log, [alert |-> consensus, tokenMetrics |-> tokenMetrics])

\* The alert loop of analyzeWhaleConsensus, from position fireIdx up to the next
\* await of triggerWhaleConsensusAlert, or to the end of the cycle.
RECURSIVE FireLoop(_, _, _, _)
FireLoop(cy, alerted, snk, sup) ==
  IF cy.fireIdx >= Len(cy.consensusTokens) THEN Outcome(IdleCycle, alerted, snk, sup)
  ELSE LET consensus == cy.consensusTokens[cy.fireIdx + 1]
           consensusId == ConsensusId(consensus)
           next == [cy EXCEPT !.fireIdx = @ + 1]
       IN IF NotYetAlerted(consensusId, alerted)
          THEN Outcome(next, alerted \cup {consensusId},
                       Trigger(snk, consensus, cy.currentTime), sup)
          ELSE FireLoop(next, alerted, snk, sup \cup {consensus @@ [run |-> startCount]})

\* A threshold that is one whale short.
HasConsensusOneShort(uniquePurchases) ==
  Len(uniquePurchases) >= MIN_WHALES_FOR_CONSENSUS - 1

\* uniquePurchases.length >= this.MIN_WHALES_FOR_CONSENSUS
HasConsensus(uniquePurchases) == Len(uniquePurchases) >= MIN_WHALES_FOR_CONSENSUS

\* The index after `from` of the next key of the map whose window qualifies, 0
\* when there is none.
NextQualifying(from, currentTime) ==
  LET qualifying == {j \in DOMAIN tokenOrder :
                       /\ j > from
                       /\ HasConsensus(UniquePurchases(recentWhalePurchases[tokenOrder[j]],
                                                       currentTime))}
  IN IF qualifying = {} THEN 0
     ELSE CHOOSE j \in qualifying : \A k \in qualifying : j <= k

\* The token loop of analyzeWhaleConsensus, from the key after cy.idx up to the
\* next await of turboGetTokenInfo, or on to the sort and the alert loop.
AnalyzeLoop(cy) ==
  LET j == NextQualifying(cy.idx, cy.currentTime)
  IN IF j # 0
     THEN Outcome([cy EXCEPT !.pc = "analyze", !.idx = j,
                     !.pending = UniquePurchases(recentWhalePurchases[tokenOrder[j]],
                                                 cy.currentTime),
                     !.observed = recentWhalePurchases[tokenOrder[j]]],
                  alertedConsensus, sink, suppressed)
     ELSE FireLoop([cy EXCEPT !.pc = "fire", !.pending = <<>>, !.observed = <<>>,
                      !.consensusTokens = SortByStrength(@), !.fireIdx = 0],
                   alertedConsensus, sink, suppressed)

\* analyzeWhaleConsensus from its first line (the locals of the caller play no
\* part any more).
analyzeWhaleConsensus ==
  AnalyzeLoop([IdleCycle EXCEPT !.currentTime = now])

\* The wallet checks of one batch are started together: each reads its
\* lastCheckedTimes entry (15 minutes ago when it has none) and asks for the
\* signatures.
LaunchBatch(cy, batchIndex) ==
  [cy EXCEPT !.pc = "fetch", !.batchIndex = batchIndex, !.launchedAt = now,
     !.checking = Range(cy.batches[batchIndex]),
     !.lastChecked = [w \in Wallets |->
        IF w \in Range(cy.batches[batchIndex])
        THEN OrDefault(lastCheckedTimes[w], now - consensusTimeWindow)
        ELSE 0]]

\* detectWhaleConsensus up to its first await.
detectWhaleConsensus ==
  LET batches == chunkArray(allMonitoredWallets, BATCH_SIZE)
      cy == [IdleCycle EXCEPT !.batches = batches]
  IN IF batches = <<>> THEN analyzeWhaleConsensus
     ELSE Outcome(LaunchBatch(cy, 1), alertedConsensus, sink, suppressed)

\* The configured interval taken as it is.
EffectiveCheckIntervalUnclamped(checkIntervalSeconds, floor) == checkIntervalSeconds * 1000

\* Math.max(config.settings.checkIntervalSeconds * 1000, floor)
EffectiveCheckInterval(checkIntervalSeconds, floor) ==
  Max2(checkIntervalSeconds * 1000, floor)

\* A wallet check without signatures that rejects the Promise.all of its batch:
\* the cycle ends in the catch of detectWhaleConsensus.
WalletReturnedOrRejected(cy, w, signatures) ==
  IF signatures = <<>> THEN IdleCycle
  ELSE [cy EXCEPT !.checking = @ \ {w}, !.lastChecked[w] = 0]

\* A wallet check whose failed request is never settled: the Promise.all of the
\* batch keeps waiting for it.
WalletReturnedUnlessFailed(cy, w, signatures) ==
  IF signatures = <<>>
  THEN [cy EXCEPT !.checking = (@ \ {w}) \cup {Null}, !.lastChecked[w] = 0]
  ELSE [cy EXCEPT !.checking = @ \ {w}, !.lastChecked[w] = 0]

\* The promise of a wallet of the batch resolves, whatever the check met (the
\* check and the batch callback catch every error): the batch waits for the
\* other wallets.
WalletReturned(cy, w, signatures) ==
  [cy EXCEPT !.checking = @ \ {w}, !.lastChecked[w] = 0]

Apply(c, out) ==
  /\ cycles' = [cycles EXCEPT ![c] = out.cy]
  /\ alertedConsensus' = out.alerted
  /\ sink' = out.sink
  /\ suppressed' = out.suppressed

\* A step that makes no request to the token API, writes no alert and sets no
\* timeout of an instant check.
NoRequestAnswered == UNCHANGED <<tokenInfoCache, emitted, instantTimeouts, serviceVars>>


----------------------------------------------------------------------------
(* Actions *)

\* Time passes, up to one of the instants at which the environment is observed.
Tick ==
  /\ NoRequestAnswered
  /\ \E t \in instants : t > now /\ now' = t
  /\ UNCHANGED <<cycleCount, envVars, timerVars, configVars, lastCheckedTimes, detectorVars, cycles>>

\* startMonitoring up to the await of loadQualifiedWallets: the guard and
\* loadManualWallets.
StartBegin ==
  /\ NoRequestAnswered
  /\ ~isMonitoring
  /\ startCount < starts
  /\ startCount' = startCount + 1
  /\ startsInFlight' = startsInFlight + 1
  /\ MIN_PURCHASE_USD' = configFile.settings.minPurchaseUsd
  /\ CHECK_INTERVAL' =
       EffectiveCheckInterval(configFile.settings.checkIntervalSeconds, MIN_CHECK_INTERVAL)
  /\ MIN_WHALES_FOR_CONSENSUS' =
       OrDefault(configFile.settings.minWhalesForConsensus, DEFAULT_MIN_WHALES)
  /\ manualWallets' = EnabledManualWallets(configFile)
  /\ UNCHANGED <<cycleCount, now, envVars, isMonitoring, monitoringInterval, activeIntervals,
                 pendingTimeouts, qualifiedWallets, allMonitoredWallets,
                 lastCheckedTimes, detectorVars, cycles>>

\* startMonitoring after loadQualifiedWallets answered (with the wallets of the
\* database, or with none when the query failed): the wallet list, the
\* last-checked times, the interval timer and the initial check.  setInterval
\* returns a handle of its own at every call: the number of the calls of
\* startMonitoring that have come this far.
StartFinish ==
  /\ NoRequestAnswered
  /\ startsInFlight > 0
  /\ startsInFlight' = startsInFlight - 1
  /\ \E qualified \in {db, <<>>} :
       LET all == combineWalletsForMonitoring(qualified, manualWallets, configFile)
       IN /\ qualifiedWallets' = qualified
          /\ allMonitoredWallets' = all
          /\ IF all = <<>>
             THEN UNCHANGED <<isMonitoring, monitoringInterval, activeIntervals,
                              pendingTimeouts, lastCheckedTimes>>
             ELSE /\ isMonitoring' = TRUE
                  /\ lastCheckedTimes' =
                       [w \in Wallets |-> IF w \in Range(all) THEN now - consensusTimeWindow
                                          ELSE lastCheckedTimes[w]]
                  /\ monitoringInterval' = startCount - startsInFlight + 1
                  /\ activeIntervals' =
                       activeIntervals \cup {startCount - startsInFlight + 1}
                  /\ pendingTimeouts' = pendingTimeouts + 1
  /\ UNCHANGED <<cycleCount, now, envVars, startCount, MIN_PURCHASE_USD, CHECK_INTERVAL,
                 MIN_WHALES_FOR_CONSENSUS, manualWallets, detectorVars, cycles>>

\* A stop that also forgets the consensus already alerted.
StopMonitoringForgetting ==
  /\ NoRequestAnswered
  /\ activeIntervals' = activeIntervals \ {monitoringInterval}
  /\ monitoringInterval' = 0
  /\ isMonitoring' = FALSE
  /\ alertedConsensus' = {}
  /\ UNCHANGED <<cycleCount, now, envVars, pendingTimeouts, startsInFlight, startCount, configVars,
                 lastCheckedTimes, recentWhalePurchases, tokenOrder, sink, suppressed, cycles>>

\* stopMonitoring
StopMonitoring ==
  /\ NoRequestAnswered
  /\ activeIntervals' = activeIntervals \ {monitoringInterval}
  /\ monitoringInterval' = 0
  /\ isMonitoring' = FALSE
  /\ UNCHANGED <<cycleCount, now, envVars, pendingTimeouts, startsInFlight, startCount, configVars,
                 lastCheckedTimes, detectorVars, cycles>>

\* addManualWallet(address, ...): refused when the file already holds the
\* address; otherwise the file is rewritten with the new enabled entry,
\* loadManualWallets reads it back and combineWalletsForMonitoring rebuilds the
\* wallet list (qualified wallets as they were last loaded).
AddManualWallet(address) ==
  /\ NoRequestAnswered
  /\ \A i \in DOMAIN configFile.manualWallets : configFile.manualWallets[i].address # address
  /\ LET file == [configFile EXCEPT
                   !.manualWallets = Append(@, [address |-> address, enabled |-> TRUE])]
         manual == EnabledManualWallets(file)
     IN /\ configFile' = file
        /\ MIN_PURCHASE_USD' = file.settings.minPurchaseUsd
        /\ CHECK_INTERVAL' =
             EffectiveCheckInterval(file.settings.checkIntervalSeconds, MIN_CHECK_INTERVAL)
        /\ MIN_WHALES_FOR_CONSENSUS' =
             OrDefault(file.settings.minWhalesForConsensus, DEFAULT_MIN_WHALES)
        /\ manualWallets' = manual
        /\ allMonitoredWallets' = combineWalletsForMonitoring(qualifiedWallets, manual, file)
  /\ UNCHANGED <<cycleCount, now, chain, instants, starts, db, tokenApi, timerVars, qualifiedWallets,
                 lastCheckedTimes, detectorVars, cycles>>

StartCycle ==
  /\ NoRequestAnswered
  /\ cycleCount < MaxCycles
  /\ cycleCount' = cycleCount + 1
  /\ \E c \in CycleIds :
       /\ cycles[c].pc = "idle"
       /\ \A d \in CycleIds : cycles[d].pc = "idle" => c <= d
       /\ Apply(c, detectWhaleConsensus)
  /\ UNCHANGED <<now, envVars, configVars, lastCheckedTimes, recentWhalePurchases, tokenOrder>>

\* The callback of setInterval.
IntervalFire ==
  /\ activeIntervals # {}
  /\ StartCycle
  /\ UNCHANGED timerVars

\* The callback of the initial setTimeout.
InitialTimeoutFire ==
  /\ pendingTimeouts > 0
  /\ pendingTimeouts' = pendingTimeouts - 1
  /\ StartCycle
  /\ UNCHANGED <<isMonitoring, monitoringInterval, activeIntervals, startsInFlight, startCount>>

\* One wallet of the batch: checkWalletForConsensus from the answer of
\* turboGetSolanaSignatures (given at some time tSig since the check started) to
\* its return, and the caller's addPurchasesToConsensusTracking.  ok are the
\* signatures whose transaction details arrived.
WalletChecked(c, w) ==
  /\ cycles[c].pc = "fetch"
  /\ w \in cycles[c].checking
  /\ \E signatures \in UNION {turboGetSolanaSignatures(w, tSig) :
                                 tSig \in cycles[c].launchedAt..now} :
       LET lastChecked == cycles[c].lastChecked[w]
           recent == RecentSignatures(signatures, lastChecked)
       IN /\ cycles' = [cycles EXCEPT ![c] = WalletReturned(cycles[c], w, signatures)]
          /\ IF recent = <<>>
             THEN UNCHANGED <<lastCheckedTimes, recentWhalePurchases, tokenOrder,
                             tokenInfoCache>>
             ELSE \E ok \in SUBSET {recent[i].signature : i \in DOMAIN recent},
                     api \in tokenApi :
                    LET info == [m \in MintKeys |-> turboGetTokenInfo(m, tokenInfoCache, api)]
                        purchases == ValidPurchases(recent, ok, w, MIN_PURCHASE_USD, info)
                        st == addPurchasesToConsensusTracking(
                                purchases,
                                [map |-> recentWhalePurchases, order |-> tokenOrder], now)
                    IN /\ lastCheckedTimes' =
                            [lastCheckedTimes EXCEPT ![w] = LatestTimestamp(recent, lastChecked)]
                       /\ recentWhalePurchases' = st.map
                       /\ tokenOrder' = st.order
                       /\ tokenInfoCache' = CacheAfter(tokenInfoCache, AskedMints(recent, ok), api)
  /\ UNCHANGED <<cycleCount, now, envVars, timerVars, configVars, alertedConsensus, sink,
                 suppressed, emitted, instantTimeouts, serviceVars>>

\* detectWhaleConsensus after Promise.all of a batch (and the delay between two
\* batches): the next batch, or analyzeWhaleConsensus up to its first await.
BatchJoin(c) ==
  /\ NoRequestAnswered
  /\ cycles[c].pc = "fetch"
  /\ cycles[c].checking = {}
  /\ \E out \in {IF cycles[c].batchIndex < Len(cycles[c].batches)
                  THEN Outcome(LaunchBatch(cycles[c], cycles[c].batchIndex + 1),
                               alertedConsensus, sink, suppressed)
                  ELSE analyzeWhaleConsensus} :
       Apply(c, out)
  /\ UNCHANGED <<cycleCount, now, envVars, timerVars, configVars, lastCheckedTimes,
                 recentWhalePurchases, tokenOrder>>

\* analyzeWhaleConsensus after turboGetTokenInfo answered: the consensus of the
\* token is recorded and the token loop goes on.
TokenInfoReturn(c) ==
  /\ cycles[c].pc = "analyze"
  /\ UNCHANGED <<emitted, instantTimeouts, serviceVars>>
  /\ \E api \in tokenApi :
       LET tokenMint == tokenOrder[cycles[c].idx]
           tokenInfo == turboGetTokenInfo(tokenMint, tokenInfoCache, api)
       IN /\ tokenInfoCache' = CacheAfter(tokenInfoCache, {tokenMint}, api)
          /\ IF tokenInfo = Throws
             THEN Apply(c, Outcome(IdleCycle, alertedConsensus, sink, suppressed))
             ELSE Apply(c, AnalyzeLoop([cycles[c] EXCEPT
                    !.consensusTokens =
                       Append(@, BuildConsensus(tokenMint, cycles[c].pending)
                                 @@ [tokenSymbol |-> tokenInfo,
                                     window |-> cycles[c].observed])]))
  /\ UNCHANGED <<cycleCount, now, envVars, timerVars, configVars, lastCheckedTimes,
                 recentWhalePurchases, tokenOrder>>

\* A sink that, once the alert is written, empties the window of its token.
TriggerReturnClearing(c) ==
  /\ cycles[c].pc = "fire"
  /\ UNCHANGED <<tokenInfoCache, instantTimeouts, serviceVars>>
  /\ \E api \in tokenApi :
       emitted' = Emit(emitted, cycles[c].consensusTokens[cycles[c].fireIdx],
                       getTokenMetrics(api))
  /\ Apply(c, FireLoop(cycles[c], alertedConsensus, sink, suppressed))
  /\ recentWhalePurchases' =
       [recentWhalePurchases EXCEPT
          ![cycles[c].consensusTokens[cycles[c].fireIdx].tokenMint] = <<>>]
  /\ UNCHANGED <<cycleCount, now, envVars, timerVars, configVars, lastCheckedTimes,
                 tokenOrder>>

\* triggerWhaleConsensusAlert after getTokenMetrics answered: the alert is
\* written, the call returns and the alert loop of analyzeWhaleConsensus goes on.
TriggerReturn(c) ==
  /\ cycles[c].pc = "fire"
  /\ UNCHANGED <<tokenInfoCache, instantTimeouts, serviceVars>>
  /\ \E api \in tokenApi :
       emitted' = Emit(emitted, cycles[c].consensusTokens[cycles[c].fireIdx],
                       getTokenMetrics(api))
  /\ Apply(c, FireLoop(cycles[c], alertedConsensus, sink, suppressed))
  /\ UNCHANGED <<cycleCount, now, envVars, timerVars, configVars, lastCheckedTimes,
                 recentWhalePurchases, tokenOrder>>

----------------------------------------------------------------------------
(* The environments *)

ManualWallet(address, enabled) == [address |-> address, enabled |-> enabled]

ConfigFile(wallets, minWhales) ==
  [manualWallets |-> wallets,
   settings |-> [minPurchaseUsd |-> 50, checkIntervalSeconds |-> 30,
                 enableQualifiedWallets |-> TRUE, enableManualWallets |-> TRUE,
                 minWhalesForConsensus |-> minWhales]]

Environment(txs, times, calls) == [chain |-> txs, instants |-> times, starts |-> calls]

\* Two whales buy T; both buy T again when the window of their first purchases
\* has passed.
Refill ==
  Environment({Tx(1, "W1", "T", StartOfTime, 500), Tx(2, "W2", "T", StartOfTime, 1000),
               Tx(4, "W1", "T", StartOfTime + 16, 500),
               Tx(5, "W2", "T", StartOfTime + 16, 750)},
              {StartOfTime + 16}, 1)

\* W1 bought T six minutes before the monitor starts and buys it again at the
\* start, when W2 buys it too; W1 buys more of it 15 minutes later.
Boundary ==
  Environment({Tx(1, "W1", "T", StartOfTime - 6, 750),
               Tx(2, "W1", "T", StartOfTime, 500),
               Tx(3, "W2", "T", StartOfTime, 1000),
               Tx(4, "W1", "T", StartOfTime + 15, 2000)},
              {StartOfTime + 15}, 1)

\* W1 buys T for $100, W2 buys T for $200 five minutes later, W3 buys T twenty
\* minutes after W1; the monitor is observed at minute 6 and at minute `later`.
EndToEnd(later) ==
  Environment({Tx(1, "W1", "T", StartOfTime, 500),
               Tx(2, "W2", "T", StartOfTime + 5, 1000),
               Tx(3, "W3", "T", StartOfTime + 20, 250)},
              {StartOfTime + 6, StartOfTime + later}, 1)

\* Two whales buy T when the monitor starts; nothing is bought afterwards and
\* the monitor is observed again when the two purchases have expired.
Expiry ==
  Environment({Tx(1, "W1", "T", StartOfTime, 500), Tx(2, "W2", "T", StartOfTime, 1000)},
              {StartOfTime + 16}, 1)

\* W1 buys T when the monitor starts; ten minutes later W1 buys more of it and
\* W2 buys it too; the monitor is observed then and six minutes later, when the
\* first purchase of W1 has expired.
Succession ==
  Environment({Tx(1, "W1", "T", StartOfTime, 500),
               Tx(2, "W1", "T", StartOfTime + 10, 750),
               Tx(3, "W2", "T", StartOfTime + 10, 1000)},
              {StartOfTime + 10, StartOfTime + 16}, 1)

\* The values of minWhalesForConsensus an operator can write in the file: the
\* key left out (0), zero, a negative number, and numbers from 1 on.
ConfiguredMinWhales == {-1, 0, 1, 2, 3}

\* What a lookup returns when it has no data (null), and what Map.get returns for
\* a key without an entry (undefined).
NoData == [fetchedAt |-> 0]
NoEntry == [data |-> NoData, expires |-> 0]

ConstructedMonitor ==
  /\ now = StartOfTime
  /\ isMonitoring = FALSE
  /\ monitoringInterval = 0
  /\ activeIntervals = {}
  /\ pendingTimeouts = 0
  /\ startsInFlight = 0
  /\ startCount = 0
  /\ MIN_PURCHASE_USD = 50
  /\ CHECK_INTERVAL = 30000
  /\ MIN_WHALES_FOR_CONSENSUS = 2
  /\ manualWallets = <<>>
  /\ qualifiedWallets = <<>>
  /\ allMonitoredWallets = <<>>
  /\ lastCheckedTimes = [w \in Wallets |-> 0]
  /\ recentWhalePurchases = [t \in MintKeys |-> <<>>]
  /\ tokenInfoCache = [t \in MintKeys |-> Null]
  /\ emitted = <<>>
  /\ instantTimeouts = <<>>
  /\ currentPrice = INITIAL_SOL_PRICE
  /\ instantChecks = [k \in InstantIds |-> IdleCycle]
  /\ purchaseAlerts = <<>>
  /\ marketCapCache = [m \in MintKeys |-> NoEntry]
  /\ socialAnalysisCache = [m \in MintKeys |-> NoEntry]
  /\ enableSocialAnalysis = TRUE
  /\ tokenOrder = <<>>
  /\ alertedConsensus = {}
  /\ cycles = [c \in CycleIds |-> IdleCycle]
  /\ cycleCount = 0
  /\ sink = <<>>
  /\ suppressed = {}

\* The monitor as constructed, no function under study having been called.
Constructed ==
  /\ ConstructedMonitor
  /\ call = Null

Init ==
  /\ Constructed
  /\ \E env \in {Refill, Boundary} :
       chain = env.chain /\ instants = env.instants /\ starts = env.starts
  /\ configFile \in {ConfigFile(<<ManualWallet("W1", TRUE), ManualWallet("W3", FALSE)>>, m) :
                       m \in {0}}
  /\ db = <<"W2">>
  /\ tokenApi = {"ok"}

Next ==
  \/ Tick
  \/ StartBegin
  \/ StartFinish
  \/ StopMonitoring
  \/ IntervalFire
  \/ InitialTimeoutFire
  \/ \E c \in CycleIds, w \in Wallets : WalletChecked(c, w)
  \/ \E c \in CycleIds : BatchJoin(c)
  \/ \E c \in CycleIds : TokenInfoReturn(c)
  \/ \E c \in CycleIds : TriggerReturn(c)

Spec == Init /\ [][Next]_vars

InitE2E ==
  /\ Constructed
  /\ \E env \in {EndToEnd(20), EndToEnd(21)} :
       chain = env.chain /\ instants = env.instants /\ starts = env.starts
  /\ configFile = ConfigFile(<<ManualWallet("W1", TRUE)>>, 2)
  /\ db = <<"W2", "W3">>
  /\ tokenApi = {"ok"}

SpecE2E == InitE2E /\ [][Next]_vars

\* One whale buys T when the monitor starts; the operator stops and starts the
\* monitor again and adds wallets by hand.
Restart ==
  Environment({Tx(1, "W1", "T", StartOfTime, 500)}, {StartOfTime + 1}, 2)

\* The addresses the operator passes to addManualWallet: one the file holds
\* already and a new one.
OperatorAddresses == {"W1", "W2"}

InitRestart ==
  /\ Constructed
  /\ chain = Restart.chain /\ instants = Restart.instants /\ starts = Restart.starts
  /\ configFile = ConfigFile(<<ManualWallet("W1", TRUE)>>, 1)
  /\ db = <<>>
  /\ tokenApi = {"ok"}

\* The monitor with an operator who also adds wallets while it runs.
NextOperator ==
  \/ Next
  \/ \E address \in OperatorAddresses : AddManualWallet(address)

SpecRestart == InitRestart /\ [][NextOperator]_vars

\* W1 buys T for exactly the floor of $50 (0.25 SOL), W2 buys U for $49 and T
\* for $51.
Floor ==
  Environment({Tx(1, "W1", "T", StartOfTime, 250), Tx(2, "W2", "U", StartOfTime, 245),
               Tx(3, "W2", "T", StartOfTime, 255)},
              {StartOfTime + 1}, 1)

\* Transactions with partial data: W1 and W2 each spend SOL for a token balance
\* that carries no mint; a balance of T grows for W1 without any SOL leaving
\* the wallet, and for W2 while SOL comes in.
Malformed ==
  Environment({Tx(1, "W1", Undefined, StartOfTime, 500),
               Tx(2, "W2", Undefined, StartOfTime, 1000),
               Tx(3, "W1", "T", StartOfTime, 0),
               Tx(4, "W2", "T", StartOfTime, -300)},
              {StartOfTime + 1}, 1)

\* The monitor fed with purchases at the floor and with partial data, the token
\* API answering or failing.
InitIngest ==
  /\ Constructed
  /\ \E env \in {Floor, Malformed} :
       chain = env.chain /\ instants = env.instants /\ starts = env.starts
  /\ configFile = ConfigFile(<<ManualWallet("W1", TRUE)>>, 2)
  /\ db = <<"W2">>
  /\ tokenApi = TokenApiOutcomes

SpecIngest == InitIngest /\ [][Next]_vars

\* Two whales buy T when the monitor starts; one whale is enough for a consensus.
TwoWhales ==
  Environment({Tx(1, "W1", "T", StartOfTime, 500), Tx(2, "W2", "T", StartOfTime, 1000)},
              {StartOfTime + 1}, 1)

\* The monitor with a threshold of one whale.
InitIsolation ==
  /\ Constructed
  /\ chain = TwoWhales.chain /\ instants = TwoWhales.instants /\ starts = TwoWhales.starts
  /\ configFile = ConfigFile(<<ManualWallet("W1", TRUE)>>, 1)
  /\ db = <<"W2">>
  /\ tokenApi = {"ok"}

SpecIsolation == InitIsolation /\ [][Next]_vars

\* Every request of a wallet check is answered, fails or runs into the timeout of
\* turboAxios, and the event loop runs the continuation of a settled Promise.all.
RequestsSettle ==
  WF_vars(\E c \in CycleIds : BatchJoin(c) \/ \E w \in Wallets : WalletChecked(c, w))

\* One start of the monitor with a threshold of one whale, and its cycles.
InitTermination ==
  /\ Constructed
  /\ chain = TwoWhales.chain /\ instants = {} /\ starts = 1
  /\ configFile = ConfigFile(<<ManualWallet("W1", TRUE)>>, 1)
  /\ db = <<"W2">>
  /\ tokenApi = {"ok"}

NextCycle ==
  \/ StartBegin
  \/ StartFinish
  \/ IntervalFire
  \/ InitialTimeoutFire
  \/ \E c \in CycleIds, w \in Wallets : WalletChecked(c, w)
  \/ \E c \in CycleIds : BatchJoin(c)
  \/ \E c \in CycleIds : TokenInfoReturn(c)
  \/ \E c \in CycleIds : TriggerReturn(c)

SpecTermination == InitTermination /\ [][NextCycle]_vars /\ RequestsSettle

\* One whale buys U for $200 and then T for $100 when the monitor starts; one
\* whale is enough for a consensus.
TwoTokens ==
  Environment({Tx(1, "W1", "U", StartOfTime, 1000), Tx(2, "W1", "T", StartOfTime, 500)},
              {StartOfTime + 1}, 1)

\* The monitor with a token API that answers or fails.
InitEnrich ==
  /\ Constructed
  /\ chain = TwoTokens.chain /\ instants = TwoTokens.instants /\ starts = TwoTokens.starts
  /\ configFile = ConfigFile(<<ManualWallet("W1", TRUE)>>, 1)
  /\ db = <<>>
  /\ tokenApi = TokenApiOutcomes

SpecEnrich == InitEnrich /\ [][Next]_vars

\* The monitor started with each of the configured thresholds.
InitConfig ==
  /\ Constructed
  /\ chain = Expiry.chain /\ instants = Expiry.instants /\ starts = Expiry.starts
  /\ configFile \in {ConfigFile(<<ManualWallet("W1", TRUE)>>, m) : m \in ConfiguredMinWhales}
  /\ db = <<"W2">>
  /\ tokenApi = {"ok"}

SpecConfig == InitConfig /\ [][Next]_vars

\* The monitor with a threshold of one whale and the purchases of Succession.
InitMembership ==
  /\ Constructed
  /\ chain = Succession.chain /\ instants = Succession.instants
  /\ starts = Succession.starts
  /\ configFile = ConfigFile(<<ManualWallet("W1", TRUE)>>, 1)
  /\ db = <<"W2">>
  /\ tokenApi = {"ok"}

\* The monitor started once and never stopped, observed as time passes.
NextObserved ==
  \/ Tick
  \/ NextCycle

SpecMembership == InitMembership /\ [][NextObserved]_vars


\* The monitor with a wallet that the file lists as disabled and that the
\* database holds as a qualified wallet.
InitPolling ==
  /\ Constructed
  /\ chain = TwoWhales.chain /\ instants = TwoWhales.instants /\ starts = TwoWhales.starts
  /\ configFile = ConfigFile(<<ManualWallet("W1", TRUE), ManualWallet("W3", FALSE)>>, 2)
  /\ db = <<"W2", "W3">>
  /\ tokenApi = {"ok"}

SpecPolling == InitPolling /\ [][Next]_vars

----------------------------------------------------------------------------
(* The enhanced monitor: EnhancedUltraFastWhaleMonitor (src/unnamed/part_006). *)
(* It watches the manual wallets only, checks them all at once, keeps a window *)
(* of 30 minutes, takes the SOL price of RealTimeSolPriceService and, besides  *)
(* the evaluation at the end of a cycle, runs an instant check 50 ms after     *)
(* every wallet check that returned purchases.  The model lets a detection     *)
(* cycle overlap with one other cycle and an instant check with one other      *)
(* instant check.                                                              *)

enhancedConsensusTimeWindow == 30     \* 30 * 60 * 1000 ms, in minutes
ENHANCED_LOOKBACK == 3                \* 3 * 60 * 1000 ms, in minutes
ENHANCED_MIN_CHECK_INTERVAL == 10000

\* The quote the price endpoints give for SOL, in USD, once the price has moved.
PriceQuotes == {300}

\* updateSolPrice after an endpoint answered with one of the quotes:
\* currentPrice takes the quote.  (When no endpoint answers the price stays as
\* it is.)
SolPriceMoves(quotes) ==
  /\ \E quote \in quotes : quote # currentPrice /\ currentPrice' = quote
  /\ UNCHANGED <<now, envVars, timerVars, configVars, lastCheckedTimes, detectorVars,
                 cycles, cycleCount, tokenInfoCache, emitted, instantTimeouts,
                 instantChecks, purchaseAlerts, cacheVars, call>>

UpdateSolPrice == SolPriceMoves(PriceQuotes)

EnhancedFilterWindow(purchases, currentTime) ==
  SelectSeq(purchases, LAMBDA p : (currentTime - p.timestamp) <= enhancedConsensusTimeWindow)

RECURSIVE addEnhancedPurchasesToConsensusTracking(_, _, _)
addEnhancedPurchasesToConsensusTracking(purchases, st, currentTime) ==
  IF purchases = <<>> THEN st
  ELSE LET purchase == Head(purchases)
           tokenMint == purchase.tokenMint
           has == tokenMint \in Range(st.order)
           tokenPurchases == Append(IF has THEN st.map[tokenMint] ELSE <<>>, purchase)
           filteredPurchases == EnhancedFilterWindow(tokenPurchases, currentTime)
       IN addEnhancedPurchasesToConsensusTracking(
            Tail(purchases),
            [map |-> [st.map EXCEPT ![tokenMint] = filteredPurchases],
             order |-> IF has THEN st.order ELSE Append(st.order, tokenMint)],
            currentTime)

\* parseEnhancedTokenPurchase: a purchase when a token balance of the wallet grew
\* and SOL was spent, priced with the SOL price handed to the cycle; null
\* otherwise, and when a lookup for a balance without mint throws
\* (<<purchase>> or <<>>).
parseEnhancedTokenPurchase(tx, walletAddress, currentSolPrice) ==
  IF tx.mint = Null THEN <<>>
  ELSE IF calculateSolSpent(tx) > 0 /\ tx.mint # Undefined
       THEN <<[walletAddress |-> walletAddress,
               tokenMint |-> tx.mint,
               amountSol |-> calculateSolSpent(tx),
               amountUsd |-> (calculateSolSpent(tx) * currentSolPrice) \div 1000,
               signature |-> tx.signature,
               timestamp |-> tx.blockTime]>>
       ELSE <<>>

\* The purchases enhancedUltraFastCheckWallet returns: in the order of
\* recentSignatures, those whose details arrived (ok), that parse to a purchase
\* and reach the floor.
RECURSIVE EnhancedValidPurchases(_, _, _, _, _)
EnhancedValidPurchases(recent, ok, walletAddress, floor, currentSolPrice) ==
  IF recent = <<>> THEN <<>>
  ELSE LET tx == Head(recent)
           purchase == parseEnhancedTokenPurchase(tx, walletAddress, currentSolPrice)
           rest == EnhancedValidPurchases(Tail(recent), ok, walletAddress, floor,
                                          currentSolPrice)
       IN IF /\ tx.signature \in ok
             /\ purchase # <<>>
             /\ ReachesFloor(purchase[1].amountUsd, floor)
          THEN purchase \o rest
          ELSE rest

\* showEnhancedPurchaseAlertWithMarketCapAndSocial, called for each purchase
\* the wallet check returns: the individual alerts in the order of the calls.
ShowPurchaseAlerts(alerts, purchases) == alerts \o purchases

\* The uniqueWhales of the enhanced monitor: the first purchase in the window of
\* each wallet.
EnhancedUniquePurchases(purchases, currentTime) ==
  UniqueWhales(EnhancedFilterWindow(purchases, currentTime), <<>>)

\* Purchases that keep the amountUsd they were stored with.
AsStored(uniquePurchases, currentSolPrice) == uniquePurchases

\* amountUsd: purchase.amountSol * currentSolPrice
Recalculated(uniquePurchases, currentSolPrice) ==
  [i \in DOMAIN uniquePurchases |->
     [uniquePurchases[i] EXCEPT !.amountUsd = (uniquePurchases[i].amountSol * currentSolPrice) \div 1000]]

\* The EnhancedWhaleConsensus record of a token, and with it (as history) the
\* price that triggerEnhancedConsensusWithSocialMedia is called with.
BuildEnhancedConsensus(tokenMint, uniquePurchases, observed, currentSolPrice) ==
  BuildConsensus(tokenMint, uniquePurchases)
  @@ [tokenSymbol |-> "symbol", window |-> observed, currentSolPrice |-> currentSolPrice]

\* A gate of the instant check that lets every consensus through.
InstantNotYetAlertedAlways(consensusId, alerted) == TRUE

\* !this.alertedConsensus.has(consensusId) of the instant check.
InstantNotYetAlerted(consensusId, alerted) == consensusId \notin alerted

\* instantEnhancedConsensusCheck, from the key after cy.idx up to the await of
\* the lookups for the next key whose window qualifies and whose consensus was
\* not alerted (its id is added before the await), or to the end of the map.
InstantLoop(cy, alerted, snk) ==
  LET unique(j) == EnhancedUniquePurchases(recentWhalePurchases[tokenOrder[j]], cy.currentTime)
      open == {j \in DOMAIN tokenOrder :
                 /\ j > cy.idx
                 /\ HasConsensus(unique(j))
                 /\ InstantNotYetAlerted(<<tokenOrder[j], Len(unique(j))>>, alerted)}
  IN IF open = {} THEN Outcome(IdleCycle, alerted, snk, suppressed)
     ELSE LET j == CHOOSE k \in open : \A m \in open : k <= m
          IN Outcome([cy EXCEPT !.pc = "instant", !.idx = j, !.pending = unique(j),
                                !.observed = recentWhalePurchases[tokenOrder[j]]],
                     alerted \cup {<<tokenOrder[j], Len(unique(j))>>}, snk, suppressed)

\* analyzeEnhancedWhaleConsensus, from the key after cy.idx up to the await of
\* the lookups for the next key whose window qualifies, or on to the sort and
\* the alert loop.
EnhancedAnalyzeLoop(cy) ==
  LET unique(j) == EnhancedUniquePurchases(recentWhalePurchases[tokenOrder[j]], cy.currentTime)
      qualifying == {j \in DOMAIN tokenOrder : j > cy.idx /\ HasConsensus(unique(j))}
  IN IF qualifying # {}
     THEN LET j == CHOOSE k \in qualifying : \A m \in qualifying : k <= m
          IN Outcome([cy EXCEPT !.pc = "analyze", !.idx = j,
                                !.pending = Recalculated(unique(j), cy.currentSolPrice),
                                !.observed = recentWhalePurchases[tokenOrder[j]]],
                     alertedConsensus, sink, suppressed)
     ELSE FireLoop([cy EXCEPT !.pc = "fire", !.pending = <<>>, !.observed = <<>>,
                      !.consensusTokens = SortByStrength(@), !.fireIdx = 0],
                   alertedConsensus, sink, suppressed)

ApplyInstant(k, out) ==
  /\ instantChecks' = [instantChecks EXCEPT ![k] = out.cy]
  /\ alertedConsensus' = out.alerted
  /\ sink' = out.sink
  /\ suppressed' = out.suppressed

\* startMonitoring of the enhanced monitor.
EnhancedStart ==
  /\ ~isMonitoring
  /\ startCount < starts
  /\ startCount' = startCount + 1
  /\ MIN_PURCHASE_USD' = configFile.settings.minPurchaseUsd
  /\ CHECK_INTERVAL' =
       EffectiveCheckInterval(configFile.settings.checkIntervalSeconds,
                              ENHANCED_MIN_CHECK_INTERVAL)
  /\ MIN_WHALES_FOR_CONSENSUS' =
       OrDefault(configFile.settings.minWhalesForConsensus, DEFAULT_MIN_WHALES)
  /\ manualWallets' = EnabledManualWallets(configFile)
  /\ IF EnabledManualWallets(configFile) = <<>>
     THEN UNCHANGED <<isMonitoring, monitoringInterval, activeIntervals, pendingTimeouts,
                      lastCheckedTimes>>
     ELSE /\ isMonitoring' = TRUE
          /\ lastCheckedTimes' =
               [w \in Wallets |-> IF w \in Range(EnabledManualWallets(configFile))
                                  THEN now - ENHANCED_LOOKBACK
                                  ELSE lastCheckedTimes[w]]
          /\ monitoringInterval' = startCount + 1
          /\ activeIntervals' = activeIntervals \cup {startCount + 1}
          /\ pendingTimeouts' = pendingTimeouts + 1
  /\ NoRequestAnswered
  /\ UNCHANGED <<cycleCount, now, envVars, startsInFlight, qualifiedWallets,
                 allMonitoredWallets, detectorVars, cycles>>

\* enhancedUltraFastDetectConsensus up to its first await: the SOL price is read
\* and the checks of all the manual wallets are started together.
EnhancedDetect ==
  /\ cycleCount < MaxCycles
  /\ cycleCount' = cycleCount + 1
  /\ \E c \in CycleIds :
       /\ cycles[c].pc = "idle"
       /\ \A d \in CycleIds : cycles[d].pc = "idle" => c <= d
       /\ cycles' = [cycles EXCEPT ![c] =
            [IdleCycle EXCEPT !.pc = "fetch", !.launchedAt = now,
               !.currentSolPrice = currentPrice,
               !.checking = Range(manualWallets),
               !.lastChecked = [w \in Wallets |->
                  IF w \in Range(manualWallets)
                  THEN OrDefault(lastCheckedTimes[w], now - ENHANCED_LOOKBACK)
                  ELSE 0]]]
  /\ NoRequestAnswered
  /\ UNCHANGED <<now, envVars, configVars, lastCheckedTimes, detectorVars>>

\* The callback of setInterval of the enhanced monitor.
EnhancedIntervalFire ==
  /\ activeIntervals # {}
  /\ EnhancedDetect
  /\ UNCHANGED timerVars

\* The callback of the initial setTimeout of the enhanced monitor.
EnhancedTimeoutFire ==
  /\ pendingTimeouts > 0
  /\ pendingTimeouts' = pendingTimeouts - 1
  /\ EnhancedDetect
  /\ UNCHANGED <<isMonitoring, monitoringInterval, activeIntervals, startsInFlight, startCount>>

\* One wallet of the cycle: enhancedUltraFastCheckWallet from the answer of
\* ultraFastGetSignatures to its return (with the individual alert of every
\* purchase it returns), and the caller's
\* addEnhancedPurchasesToConsensusTracking and setTimeout of the instant check.
EnhancedWalletChecked(c, w) ==
  /\ cycles[c].pc = "fetch"
  /\ w \in cycles[c].checking
  /\ \E signatures \in UNION {turboGetSolanaSignatures(w, tSig) :
                                 tSig \in cycles[c].launchedAt..now} :
       LET lastChecked == cycles[c].lastChecked[w]
           recent == RecentSignatures(signatures, lastChecked)
       IN /\ cycles' = [cycles EXCEPT ![c] = WalletReturned(cycles[c], w, signatures)]
          /\ IF recent = <<>>
             THEN UNCHANGED <<lastCheckedTimes, recentWhalePurchases, tokenOrder,
                              instantTimeouts, purchaseAlerts>>
             ELSE \E ok \in SUBSET {recent[i].signature : i \in DOMAIN recent} :
                    LET purchases == EnhancedValidPurchases(recent, ok, w, MIN_PURCHASE_USD,
                                                            cycles[c].currentSolPrice)
                        st == addEnhancedPurchasesToConsensusTracking(
                                purchases,
                                [map |-> recentWhalePurchases, order |-> tokenOrder], now)
                    IN /\ lastCheckedTimes' =
                            [lastCheckedTimes EXCEPT ![w] = LatestTimestamp(recent, lastChecked)]
                       /\ purchaseAlerts' = ShowPurchaseAlerts(purchaseAlerts, purchases)
                       /\ recentWhalePurchases' = st.map
                       /\ tokenOrder' = st.order
                       /\ instantTimeouts' =
                            IF purchases = <<>> THEN instantTimeouts
                            ELSE Append(instantTimeouts, cycles[c].currentSolPrice)
  /\ UNCHANGED <<cycleCount, now, envVars, timerVars, configVars, alertedConsensus, sink,
                 suppressed, tokenInfoCache, emitted, currentPrice, instantChecks,
                 cacheVars, call>>

\* enhancedUltraFastDetectConsensus after Promise.all of the wallet checks:
\* analyzeEnhancedWhaleConsensus up to its first await.
EnhancedJoin(c) ==
  /\ cycles[c].pc = "fetch"
  /\ cycles[c].checking = {}
  /\ Apply(c, EnhancedAnalyzeLoop([IdleCycle EXCEPT
        !.currentTime = now, !.currentSolPrice = cycles[c].currentSolPrice]))
  /\ NoRequestAnswered
  /\ UNCHANGED <<cycleCount, now, envVars, timerVars, configVars, lastCheckedTimes,
                 recentWhalePurchases, tokenOrder>>

\* analyzeEnhancedWhaleConsensus after the lookups of a token answered.
EnhancedEnrichReturn(c) ==
  /\ cycles[c].pc = "analyze"
  /\ Apply(c, EnhancedAnalyzeLoop([cycles[c] EXCEPT
        !.consensusTokens =
           Append(@, BuildEnhancedConsensus(tokenOrder[cycles[c].idx], cycles[c].pending,
                                            cycles[c].observed, cycles[c].currentSolPrice))]))
  /\ NoRequestAnswered
  /\ UNCHANGED <<cycleCount, now, envVars, timerVars, configVars, lastCheckedTimes,
                 recentWhalePurchases, tokenOrder>>

\* analyzeEnhancedWhaleConsensus after triggerEnhancedConsensusWithSocialMedia
\* returned.
EnhancedTriggerReturn(c) ==
  /\ cycles[c].pc = "fire"
  /\ Apply(c, FireLoop(cycles[c], alertedConsensus, sink, suppressed))
  /\ NoRequestAnswered
  /\ UNCHANGED <<cycleCount, now, envVars, timerVars, configVars, lastCheckedTimes,
                 recentWhalePurchases, tokenOrder>>

\* The callback of the oldest setTimeout of the instant check:
\* instantEnhancedConsensusCheck, with the price of the cycle that set the
\* timeout, up to its first await.
InstantCheckFire ==
  /\ instantTimeouts # <<>>
  /\ instantTimeouts' = Tail(instantTimeouts)
  /\ \E k \in InstantIds :
       /\ instantChecks[k].pc = "idle"
       /\ \A d \in InstantIds : instantChecks[d].pc = "idle" => k <= d
       /\ ApplyInstant(k, InstantLoop([IdleCycle EXCEPT
             !.currentTime = now, !.currentSolPrice = Head(instantTimeouts)],
             alertedConsensus, sink))
  /\ UNCHANGED <<cycleCount, now, envVars, timerVars, configVars, lastCheckedTimes,
                 recentWhalePurchases, tokenOrder, tokenInfoCache, emitted, cycles,
                 currentPrice, purchaseAlerts, cacheVars, call>>

\* instantEnhancedConsensusCheck after the lookups of a token answered: the
\* consensus is built from the purchases read before the await,
\* triggerEnhancedConsensusWithSocialMedia is called (and not awaited) and the
\* loop over the map goes on.
InstantEnrichReturn(k) ==
  /\ instantChecks[k].pc = "instant"
  /\ LET cy == instantChecks[k]
         consensus ==
           BuildEnhancedConsensus(tokenOrder[cy.idx],
                                  Recalculated(cy.pending, cy.currentSolPrice),
                                  cy.observed, cy.currentSolPrice)
     IN ApplyInstant(k, InstantLoop(cy, alertedConsensus,
                                    Trigger(sink, consensus, cy.currentTime)))
  /\ UNCHANGED <<cycleCount, now, envVars, timerVars, configVars, lastCheckedTimes,
                 recentWhalePurchases, tokenOrder, tokenInfoCache, emitted, cycles,
                 instantTimeouts, currentPrice, purchaseAlerts, cacheVars, call>>

\* The enhanced monitor with one whale buying U for $200 and T for $100, one
\* whale being enough for a consensus.
InitEnhanced ==
  /\ Constructed
  /\ chain = TwoTokens.chain /\ instants = TwoTokens.instants /\ starts = TwoTokens.starts
  /\ configFile = ConfigFile(<<ManualWallet("W1", TRUE)>>, 1)
  /\ db = <<>>
  /\ tokenApi = {"ok"}

NextEnhanced ==
  \/ Tick
  \/ EnhancedStart
  \/ StopMonitoring
  \/ EnhancedIntervalFire
  \/ EnhancedTimeoutFire
  \/ \E c \in CycleIds, w \in Wallets : EnhancedWalletChecked(c, w)
  \/ \E c \in CycleIds : EnhancedJoin(c)
  \/ \E c \in CycleIds : EnhancedEnrichReturn(c)
  \/ \E c \in CycleIds : EnhancedTriggerReturn(c)
  \/ InstantCheckFire
  \/ \E k \in InstantIds : InstantEnrichReturn(k)

SpecEnhanced == InitEnhanced /\ [][NextEnhanced]_vars

\* W1 buys T for 0.5 SOL and W2 buys T for 1 SOL when the monitor starts (a
\* wallet whose signatures do not arrive in one cycle is read in the next).
TwoIngests ==
  Environment({Tx(1, "W1", "T", StartOfTime, 500), Tx(2, "W2", "T", StartOfTime, 1000)},
              {}, 1)

\* The enhanced monitor with two whales and a SOL price that moves, observed at
\* one instant and never stopped.
InitPrice ==
  /\ Constructed
  /\ chain = TwoIngests.chain /\ instants = TwoIngests.instants /\ starts = TwoIngests.starts
  /\ configFile = ConfigFile(<<ManualWallet("W1", TRUE), ManualWallet("W2", TRUE)>>, 2)
  /\ db = <<>>
  /\ tokenApi = {"ok"}

NextPrice ==
  \/ EnhancedStart
  \/ UpdateSolPrice
  \/ EnhancedIntervalFire
  \/ EnhancedTimeoutFire
  \/ \E c \in CycleIds, w \in Wallets : EnhancedWalletChecked(c, w)
  \/ \E c \in CycleIds : EnhancedJoin(c)
  \/ \E c \in CycleIds : EnhancedEnrichReturn(c)
  \/ \E c \in CycleIds : EnhancedTriggerReturn(c)
  \/ InstantCheckFire
  \/ \E k \in InstantIds : InstantEnrichReturn(k)

SpecPrice == InitPrice /\ [][NextPrice]_vars

\* W1 buys T for 0.2 SOL and W2 buys T for 1 SOL when the monitor starts: at
\* $300 a SOL the purchase of W1 is worth $60, at $200 a SOL $40.
NearFloor ==
  Environment({Tx(1, "W1", "T", StartOfTime, 200), Tx(2, "W2", "T", StartOfTime, 1000)},
              {}, 1)

\* The quotes of a SOL price that rises and falls.
RisingAndFalling == {200, 300}

\* The enhanced monitor with two whales, one of them close to the floor, and a
\* SOL price that rises and falls.
InitFloor ==
  /\ Constructed
  /\ chain = NearFloor.chain /\ instants = NearFloor.instants /\ starts = NearFloor.starts
  /\ configFile = ConfigFile(<<ManualWallet("W1", TRUE), ManualWallet("W2", TRUE)>>, 2)
  /\ db = <<>>
  /\ tokenApi = {"ok"}

NextFloor ==
  \/ EnhancedStart
  \/ SolPriceMoves(RisingAndFalling)
  \/ EnhancedIntervalFire
  \/ EnhancedTimeoutFire
  \/ \E c \in CycleIds, w \in Wallets : EnhancedWalletChecked(c, w)
  \/ \E c \in CycleIds : EnhancedJoin(c)
  \/ \E c \in CycleIds : EnhancedEnrichReturn(c)
  \/ \E c \in CycleIds : EnhancedTriggerReturn(c)
  \/ InstantCheckFire
  \/ \E k \in InstantIds : InstantEnrichReturn(k)

SpecFloor == InitFloor /\ [][NextFloor]_vars

----------------------------------------------------------------------------
(* The caches of the market data and of the social media data *)

MARKET_CACHE_MINUTES == 15      \* 15 * 60 * 1000 ms, in minutes
SOCIAL_CACHE_MINUTES == 30      \* 30 * 60 * 1000 ms, in minutes

\* The lookups in flight at one time, and the tokens they ask for.
LookupIds == {1, 2}
LookupMints == {"T"}

IdleLookup ==
  [fn |-> Null, tokenMint |-> Null, pc |-> "idle", calledAt |-> 0, result |-> NoData]

\* What a fetch at time t returns when it finds data.
FetchedAt(t) == [fetchedAt |-> t]

\* An entry that is also served at the millisecond it expires.
CachedUntilIncluding(cached, t) == cached # NoEntry /\ cached.expires >= t

\* cached && cached.expires > Date.now()
Cached(cached, t) == cached # NoEntry /\ cached.expires > t

Returned(fn, tokenMint, calledAt, result) ==
  [fn |-> fn, tokenMint |-> tokenMint, pc |-> "returned", calledAt |-> calledAt,
   result |-> result]

Fetching(fn, tokenMint, calledAt) ==
  [fn |-> fn, tokenMint |-> tokenMint, pc |-> "fetching", calledAt |-> calledAt,
   result |-> NoData]

LookupUnchanged ==
  UNCHANGED <<envVars, timerVars, configVars, lastCheckedTimes, detectorVars, cycles,
              cycleCount, tokenInfoCache, emitted, instantTimeouts, currentPrice,
              instantChecks, purchaseAlerts>>

\* getTokenMarketData up to its first await: the entry of the cache when it has
\* not expired, the requests to the market APIs otherwise.
getTokenMarketData(k, tokenMint) ==
  /\ call[k].pc # "fetching"
  /\ call' = [call EXCEPT ![k] =
       IF Cached(marketCapCache[tokenMint], now)
       THEN Returned("getTokenMarketData", tokenMint, now, marketCapCache[tokenMint].data)
       ELSE Fetching("getTokenMarketData", tokenMint, now)]
  /\ UNCHANGED <<now, cacheVars>>
  /\ LookupUnchanged

\* The market APIs have answered: the data of the first one that has any is
\* stored and returned; null is returned when none has.
MarketDataReturn(k) ==
  /\ call[k].pc = "fetching"
  /\ call[k].fn = "getTokenMarketData"
  /\ \E marketData \in {FetchedAt(now), NoData} :
       /\ call' = [call EXCEPT ![k] =
            Returned(call[k].fn, call[k].tokenMint, call[k].calledAt, marketData)]
       /\ marketCapCache' =
            IF marketData # NoData
            THEN [marketCapCache EXCEPT ![call[k].tokenMint] =
                    [data |-> marketData, expires |-> now + MARKET_CACHE_MINUTES]]
            ELSE marketCapCache
  /\ UNCHANGED <<now, socialAnalysisCache, enableSocialAnalysis>>
  /\ LookupUnchanged

\* getSocialMediaData up to its first await.
getSocialMediaData(k, tokenMint) ==
  /\ call[k].pc # "fetching"
  /\ call' = [call EXCEPT ![k] =
       IF Cached(socialAnalysisCache[tokenMint], now)
       THEN Returned("getSocialMediaData", tokenMint, now, socialAnalysisCache[tokenMint].data)
       ELSE IF ~enableSocialAnalysis
            THEN Returned("getSocialMediaData", tokenMint, now, NoData)
            ELSE Fetching("getSocialMediaData", tokenMint, now)]
  /\ UNCHANGED <<now, cacheVars>>
  /\ LookupUnchanged

\* analyzeSocialMedia has answered, with data, with nothing or with an error.
SocialDataReturn(k) ==
  /\ call[k].pc = "fetching"
  /\ call[k].fn = "getSocialMediaData"
  /\ \E socialData \in {FetchedAt(now), NoData} :
       /\ call' = [call EXCEPT ![k] =
            Returned(call[k].fn, call[k].tokenMint, call[k].calledAt, socialData)]
       /\ socialAnalysisCache' =
            IF socialData # NoData
            THEN [socialAnalysisCache EXCEPT ![call[k].tokenMint] =
                    [data |-> socialData, expires |-> now + SOCIAL_CACHE_MINUTES]]
            ELSE socialAnalysisCache
  /\ UNCHANGED <<now, marketCapCache, enableSocialAnalysis>>
  /\ LookupUnchanged

configureSocialAnalysis(enabled) ==
  /\ enableSocialAnalysis # enabled
  /\ enableSocialAnalysis' = enabled
  /\ UNCHANGED <<now, marketCapCache, socialAnalysisCache, call>>
  /\ LookupUnchanged

clearSocialCache ==
  /\ socialAnalysisCache' = [m \in MintKeys |-> NoEntry]
  /\ UNCHANGED <<now, marketCapCache, enableSocialAnalysis, call>>
  /\ LookupUnchanged

\* The instants around the two expiry times of data fetched when the monitor is
\* constructed.
LookupInstants ==
  {StartOfTime + MARKET_CACHE_MINUTES - 1, StartOfTime + MARKET_CACHE_MINUTES,
   StartOfTime + SOCIAL_CACHE_MINUTES - 1, StartOfTime + SOCIAL_CACHE_MINUTES,
   StartOfTime + SOCIAL_CACHE_MINUTES + 1}

InitLookup ==
  /\ ConstructedMonitor
  /\ chain = {} /\ instants = LookupInstants /\ starts = 0
  /\ configFile = ConfigFile(<<>>, 0)
  /\ db = <<>>
  /\ tokenApi = {"ok"}
  /\ call = [k \in LookupIds |-> IdleLookup]

NextLookup ==
  \/ Tick
  \/ \E k \in LookupIds, tokenMint \in LookupMints : getTokenMarketData(k, tokenMint)
  \/ \E k \in LookupIds : MarketDataReturn(k)
  \/ \E k \in LookupIds, tokenMint \in LookupMints : getSocialMediaData(k, tokenMint)
  \/ \E k \in LookupIds : SocialDataReturn(k)
  \/ \E enabled \in BOOLEAN : configureSocialAnalysis(enabled)
  \/ clearSocialCache

SpecLookup == InitLookup /\ [][NextLookup]_vars

----------------------------------------------------------------------------
(* The check interval of the two monitors *)

\* The values of checkIntervalSeconds in the configuration file.
ConfiguredIntervals == -20 .. 40

IntervalUnchanged ==
  UNCHANGED <<now, envVars, timerVars, MIN_PURCHASE_USD, MIN_WHALES_FOR_CONSENSUS,
              manualWallets, qualifiedWallets, allMonitoredWallets, lastCheckedTimes,
              detectorVars, cycles, cycleCount, tokenInfoCache, emitted, instantTimeouts,
              currentPrice, instantChecks, purchaseAlerts, cacheVars>>

\* The interval that loadManualWallets of WhaleConsensusMonitor sets.
BaseIntervalLoaded ==
  /\ call = Null
  /\ CHECK_INTERVAL' =
       EffectiveCheckInterval(configFile.settings.checkIntervalSeconds, MIN_CHECK_INTERVAL)
  /\ call' = "WhaleConsensusMonitor.loadManualWallets"
  /\ IntervalUnchanged

\* The interval that loadManualWallets of the enhanced monitor sets.
EnhancedIntervalLoaded ==
  /\ call = Null
  /\ CHECK_INTERVAL' =
       EffectiveCheckInterval(configFile.settings.checkIntervalSeconds,
                              ENHANCED_MIN_CHECK_INTERVAL)
  /\ call' = "EnhancedUltraFastWhaleMonitor.loadManualWallets"
  /\ IntervalUnchanged

InitInterval ==
  /\ Constructed
  /\ chain = {} /\ instants = {} /\ starts = 0
  /\ \E seconds \in ConfiguredIntervals :
       configFile = [ConfigFile(<<>>, 2) EXCEPT !.settings.checkIntervalSeconds = seconds]
  /\ db = <<>>
  /\ tokenApi = {"ok"}

NextInterval ==
  \/ BaseIntervalLoaded
  \/ EnhancedIntervalLoaded

SpecInterval == InitInterval /\ [][NextInterval]_vars

----------------------------------------------------------------------------
(* The scores of triggerWhaleConsensusAlert *)

\* consensus.totalAmountUsd / consensus.totalWhales >= amount.  (Of no whales
\* the quotient is NaN, or Infinity when the total is positive.)
AverageAtLeast(consensus, amount) ==
  IF consensus.totalWhales = 0 THEN consensus.totalAmountUsd > 0
  ELSE consensus.totalAmountUsd >= amount * consensus.totalWhales

\* lastPurchaseTime.getTime() - firstPurchaseTime.getTime() <= minutes * 60 * 1000.
\* (Of an invalid Date getTime() is NaN and the comparison is false.)
TimeSpanWithin(consensus, minutes) ==
  /\ consensus.firstPurchaseTime.valid
  /\ consensus.lastPurchaseTime.valid
  /\ consensus.lastPurchaseTime.time - consensus.firstPurchaseTime.time <= minutes

\* A risk score without the bonus of the average purchase.
calculateRiskScoreNoBonus(consensus) ==
  LET score ==
        (IF consensus.totalWhales >= 5 THEN 30
         ELSE IF consensus.totalWhales >= 3 THEN 20 ELSE 10)
        + (IF consensus.totalAmountUsd >= 10000 THEN 30
           ELSE IF consensus.totalAmountUsd >= 5000 THEN 20 ELSE 10)
        + (IF TimeSpanWithin(consensus, 5) THEN 30
           ELSE IF TimeSpanWithin(consensus, 15) THEN 20 ELSE 10)
  IN [score |-> score,
      level |-> IF score >= 80 THEN "VERY HIGH"
                ELSE IF score >= 60 THEN "HIGH"
                ELSE IF score >= 40 THEN "MEDIUM" ELSE "LOW"]

calculateRiskScore(consensus) ==
  LET score ==
        (IF consensus.totalWhales >= 5 THEN 30
         ELSE IF consensus.totalWhales >= 3 THEN 20 ELSE 10)
        + (IF consensus.totalAmountUsd >= 10000 THEN 30
           ELSE IF consensus.totalAmountUsd >= 5000 THEN 20 ELSE 10)
        + (IF TimeSpanWithin(consensus, 5) THEN 30
           ELSE IF TimeSpanWithin(consensus, 15) THEN 20 ELSE 10)
        + (IF AverageAtLeast(consensus, 2000) THEN 10
           ELSE IF AverageAtLeast(consensus, 1000) THEN 5 ELSE 0)
  IN [score |-> score,
      level |-> IF score >= 80 THEN "VERY HIGH"
                ELSE IF score >= 60 THEN "HIGH"
                ELSE IF score >= 40 THEN "MEDIUM" ELSE "LOW"]

\* A trading signal without the cap of the confidence.
generateTradingSignalUncapped(consensus) ==
  LET confidence ==
        50 + consensus.totalWhales * 10
        + (IF AverageAtLeast(consensus, 2000) THEN 20
           ELSE IF AverageAtLeast(consensus, 1000) THEN 10 ELSE 0)
        + (IF TimeSpanWithin(consensus, 5) THEN 15
           ELSE IF TimeSpanWithin(consensus, 15) THEN 10 ELSE 0)
  IN [confidence |-> confidence,
      type |-> IF confidence >= 80 THEN "STRONG BUY"
               ELSE IF confidence >= 70 THEN "BUY"
               ELSE IF confidence >= 60 THEN "WEAK BUY" ELSE "HOLD"]

\* A trading signal that gives nothing for purchases close in time.
generateTradingSignalNoClustering(consensus) ==
  LET confidence ==
        Min2(50 + consensus.totalWhales * 10
             + (IF AverageAtLeast(consensus, 2000) THEN 20
                ELSE IF AverageAtLeast(consensus, 1000) THEN 10 ELSE 0),
             95)
  IN [confidence |-> confidence,
      type |-> IF confidence >= 80 THEN "STRONG BUY"
               ELSE IF confidence >= 70 THEN "BUY"
               ELSE IF confidence >= 60 THEN "WEAK BUY" ELSE "HOLD"]

generateTradingSignal(consensus) ==
  LET confidence ==
        Min2(50 + consensus.totalWhales * 10
             + (IF AverageAtLeast(consensus, 2000) THEN 20
                ELSE IF AverageAtLeast(consensus, 1000) THEN 10 ELSE 0)
             + (IF TimeSpanWithin(consensus, 5) THEN 15
                ELSE IF TimeSpanWithin(consensus, 15) THEN 10 ELSE 0),
             95)
  IN [confidence |-> confidence,
      type |-> IF confidence >= 80 THEN "STRONG BUY"
               ELSE IF confidence >= 70 THEN "BUY"
               ELSE IF confidence >= 60 THEN "WEAK BUY" ELSE "HOLD"]

\* The consensus records the scores are studied on: from no whale (a threshold
\* of 0 lets an empty window through, with a total of 0 and invalid Dates) to
\* eight whales, totals around every tier, and purchases spread over up to
\* sixteen minutes (one whale alone has no spread).
ScoredWhales == 0..8
ScoredTotals == {100, 999, 1000, 1999, 2000, 4999, 5000, 9999, 10000, 16000}
ScoredSpans == {0, 5, 6, 15, 16}

ScoredConsensus ==
  {[totalWhales |-> 0, totalAmountUsd |-> 0,
    firstPurchaseTime |-> InvalidDate, lastPurchaseTime |-> InvalidDate]}
  \cup {[totalWhales |-> x[1], totalAmountUsd |-> x[2],
         firstPurchaseTime |-> Date(StartOfTime),
         lastPurchaseTime |-> Date(StartOfTime + x[3])] :
          x \in {y \in (ScoredWhales \ {0}) \X ScoredTotals \X ScoredSpans :
                   y[1] = 1 => y[3] = 0}}

ScoreUnchanged ==
  UNCHANGED <<now, envVars, timerVars, configVars, lastCheckedTimes, detectorVars,
              cycles, cycleCount, tokenInfoCache, emitted, instantTimeouts,
              currentPrice, instantChecks, purchaseAlerts, cacheVars>>

\* triggerWhaleConsensusAlert calls calculateRiskScore(consensus).
RiskScoreCalled ==
  /\ call.fn = "consensus"
  /\ call' = [fn |-> "calculateRiskScore", consensus |-> call.consensus,
              result |-> calculateRiskScore(call.consensus)]
  /\ ScoreUnchanged

\* triggerWhaleConsensusAlert calls generateTradingSignal(consensus).
TradingSignalCalled ==
  /\ call.fn \in {"consensus", "calculateRiskScore"}
  /\ call' = [fn |-> "generateTradingSignal", consensus |-> call.consensus,
              result |-> generateTradingSignal(call.consensus)]
  /\ ScoreUnchanged

\* A consensus is handed to triggerWhaleConsensusAlert.
InitScore ==
  /\ ConstructedMonitor
  /\ chain = {} /\ instants = {} /\ starts = 0
  /\ configFile = ConfigFile(<<>>, 0)
  /\ db = <<>>
  /\ tokenApi = {"ok"}
  /\ call \in {[fn |-> "consensus", consensus |-> consensus] : consensus \in ScoredConsensus}

NextScore ==
  \/ RiskScoreCalled
  \/ TradingSignalCalled

SpecScore == InitScore /\ [][NextScore]_vars

----------------------------------------------------------------------------
(* Vocabulary of the properties *)

\* The positions of the stored purchases of a token that have not expired at t.
Live(window, t) ==
  {i \in DOMAIN window : t - window[i].timestamp <= consensusTimeWindow}

LiveWallets(window, t) == {window[i].walletAddress : i \in Live(window, t)}

\* The position of the first purchase of wallet w that has not expired at t.
FirstLive(window, t, w) ==
  CHOOSE i \in Live(window, t) :
    /\ window[i].walletAddress = w
    /\ \A k \in Live(window, t) : window[k].walletAddress = w => i <= k

RECURSIVE SumOver(_, _)
SumOver(S, f) ==
  IF S = {} THEN 0
  ELSE LET x == CHOOSE y \in S : TRUE IN f[x] + SumOver(S \ {x}, f)

\* The consensus a cycle holds: those it recorded and the one whose token
\* information it awaits.
Found(cy) ==
  Range(cy.consensusTokens)
  \cup (IF cy.pc = "analyze"
        THEN {BuildConsensus(tokenOrder[cy.idx], cy.pending) @@ [window |-> cy.observed]}
        ELSE {})

\* Every evaluation on record, with the time it was made at: the alerts of the
\* sink and the consensus held by the cycles in flight.
Evaluated ==
  {[consensus |-> e.alert, currentTime |-> e.currentTime] : e \in Range(sink)}
  \cup UNION {{[consensus |-> x, currentTime |-> cycles[c].currentTime] :
                 x \in Found(cycles[c])} : c \in CycleIds}

AlertsFor(snk, tokenMint, totalWhales) ==
  {i \in DOMAIN snk : /\ snk[i].alert.tokenMint = tokenMint
                      /\ snk[i].alert.totalWhales = totalWhales}

Completes(c) == cycles[c].pc # "idle" /\ cycles'[c].pc = "idle"

----------------------------------------------------------------------------
(* The claims *)

\* C1: for every pair (tokenMint, totalWhales) the sink receives at most one
\* alert in a run, also when the window of the token emptied by expiry and
\* filled again with the same number of unique whales.
AtMostOncePerSignal ==
  \A i, j \in DOMAIN sink :
    (/\ sink[i].alert.tokenMint = sink[j].alert.tokenMint
     /\ sink[i].alert.totalWhales = sink[j].alert.totalWhales) => i = j

\* The window of an alerted token expired, filled again to the same count, was
\* found again and was not alerted again.
RefilledSignalSuppressed ==
  \E e \in Range(sink), again \in suppressed :
    /\ again.tokenMint = e.alert.tokenMint
    /\ again.totalWhales = e.alert.totalWhales
    /\ \A k \in DOMAIN again.whales, m \in DOMAIN e.alert.whales :
         again.whales[k].timestamp > e.alert.whales[m].timestamp + consensusTimeWindow
    /\ Cardinality(AlertsFor(sink, e.alert.tokenMint, e.alert.totalWhales)) = 1

\* C2: every consensus a cycle finds is, when the cycle ends, in alertedConsensus
\* and has had its alert given to the sink; an id enters alertedConsensus only
\* together with the call of the sink for it.
ExactlyOnceDelivery ==
  [][ /\ \A c \in CycleIds :
           Completes(c) =>
             \A x \in Found(cycles[c]) :
               /\ ConsensusId(x) \in alertedConsensus'
               /\ AlertsFor(sink', x.tokenMint, x.totalWhales) # {}
      /\ \A id \in alertedConsensus' : AlertsFor(sink', id[1], id[2]) # {}
      /\ alertedConsensus' # alertedConsensus =>
           /\ Len(sink') = Len(sink) + 1
           /\ alertedConsensus' = alertedConsensus \cup {ConsensusId(sink'[Len(sink')].alert)}
           /\ ConsensusId(sink'[Len(sink')].alert) \notin alertedConsensus
    ]_vars

\* A cycle found a consensus, alerted it and ended.
NewSignalDelivered ==
  /\ cycleCount >= 1
  /\ \A c \in CycleIds : cycles[c].pc = "idle"
  /\ \E e \in Range(sink) : ConsensusId(e.alert) \in alertedConsensus

\* C3: a token is taken for a consensus exactly when the purchases of its window
\* that have not expired come from at least MIN_WHALES_FOR_CONSENSUS wallets:
\* with fewer there is no alert from that evaluation, and a consensus of exactly
\* MIN_WHALES_FOR_CONSENSUS wallets has exactly one alert when its cycle ends.
ThresholdExact ==
  [][ /\ \A ev \in Evaluated' :
           /\ ev.consensus.totalWhales =
                Cardinality(LiveWallets(ev.consensus.window, ev.currentTime))
           /\ ev.consensus.totalWhales >= MIN_WHALES_FOR_CONSENSUS
      /\ \A c \in CycleIds :
           (\/ cycles[c].pc = "fetch" /\ cycles'[c].pc # "fetch"
            \/ cycles[c].pc = "analyze" /\ cycles'[c] # cycles[c]) =>
             LET from == IF cycles[c].pc = "fetch" THEN 0 ELSE cycles[c].idx
                 to == IF cycles'[c].pc = "analyze" THEN cycles'[c].idx
                       ELSE Len(tokenOrder) + 1
                 t == IF cycles[c].pc = "fetch" THEN now ELSE cycles[c].currentTime
                 count(j) == Cardinality(LiveWallets(recentWhalePurchases[tokenOrder[j]], t))
             IN /\ cycles'[c].pc # "idle" => cycles'[c].currentTime = t
                /\ \A j \in (from + 1)..(to - 1) : count(j) < MIN_WHALES_FOR_CONSENSUS
                /\ cycles'[c].pc = "analyze" => count(to) >= MIN_WHALES_FOR_CONSENSUS
      /\ \A c \in CycleIds :
           Completes(c) =>
             \A x \in Found(cycles[c]) :
               x.totalWhales = MIN_WHALES_FOR_CONSENSUS =>
                 Cardinality(AlertsFor(sink', x.tokenMint, x.totalWhales)) = 1
    ]_vars

\* An alert was given for a window of exactly MIN_WHALES_FOR_CONSENSUS wallets.
ExactlyMinWhalesFired ==
  \E e \in Range(sink) :
    /\ Cardinality(LiveWallets(e.alert.window, e.currentTime)) = MIN_WHALES_FOR_CONSENSUS
    /\ Cardinality(AlertsFor(sink, e.alert.tokenMint, MIN_WHALES_FOR_CONSENSUS)) = 1

\* C4: no purchase older than the window at the time of an evaluation is among
\* the unique whales the evaluation counts or puts in an alert, in whatever
\* order the purchases arrived.
NoExpiredWhale ==
  \A ev \in Evaluated :
    \A k \in DOMAIN ev.consensus.whales :
      ~(ev.currentTime - ev.consensus.whales[k].timestamp > consensusTimeWindow)

\* An alert was built from a window in which an expired purchase had arrived
\* after a newer purchase that is one of the whales.
ExpiredArrivedLater ==
  \E e \in Range(sink) :
    \E i, j \in DOMAIN e.alert.window :
      /\ i < j
      /\ e.alert.window[j].timestamp < e.alert.window[i].timestamp
      /\ e.currentTime - e.alert.window[j].timestamp > consensusTimeWindow
      /\ e.alert.window[i] \in Range(e.alert.whales)

\* C5: a purchase whose age is at most the window, the window exactly included,
\* is never removed from the stored purchases, and a purchase whose age is the
\* window exactly at an evaluation is counted: when no earlier purchase of its
\* wallet is still in the window it is one of the unique whales.
BoundaryRetained ==
  [][ /\ \A tokenMint \in MintKeys :
           \A p \in Range(recentWhalePurchases[tokenMint]) :
             now - p.timestamp <= consensusTimeWindow =>
               p \in Range(recentWhalePurchases'[tokenMint])
      /\ \A ev \in Evaluated' :
           LET window == ev.consensus.window
           IN \A i \in DOMAIN window :
                (/\ ev.currentTime - window[i].timestamp = consensusTimeWindow
                 /\ \A k \in 1..(i - 1) :
                      window[k].walletAddress = window[i].walletAddress =>
                        ev.currentTime - window[k].timestamp > consensusTimeWindow)
                => window[i] \in Range(ev.consensus.whales)
    ]_vars

\* An alert counts a whale whose purchase is exactly as old as the window.
BoundaryWhaleCounted ==
  \E e \in Range(sink) :
    \E k \in DOMAIN e.alert.whales :
      e.currentTime - e.alert.whales[k].timestamp = consensusTimeWindow

\* C6: the unique whales of an evaluation hold one purchase for each wallet with
\* a purchase in the window, the first of that wallet in the stored purchases,
\* in the order of these first purchases; and the stored purchases keep the
\* order in which they were inserted.
FirstInsertedWins ==
  [][ /\ \A ev \in Evaluated' :
           LET whales == ev.consensus.whales
               window == ev.consensus.window
               first(k) == FirstLive(window, ev.currentTime, whales[k].walletAddress)
           IN /\ \A k, m \in DOMAIN whales :
                   whales[k].walletAddress = whales[m].walletAddress => k = m
              /\ {whales[k].walletAddress : k \in DOMAIN whales}
                   = LiveWallets(window, ev.currentTime)
              /\ \A k \in DOMAIN whales : whales[k] = window[first(k)]
              /\ \A k, m \in DOMAIN whales : k < m => first(k) < first(m)
      /\ \A tokenMint \in MintKeys :
           LET old == recentWhalePurchases[tokenMint]
               new == recentWhalePurchases'[tokenMint]
               kept == SelectSeq(old, LAMBDA p : now - p.timestamp <= consensusTimeWindow)
           IN \/ new = old
              \/ Len(new) >= Len(kept) /\ SubSeq(new, 1, Len(kept)) = kept
    ]_vars

\* An alert in which a wallet has a later and larger purchase in the window than
\* the one that stands for it.
FirstNotLargestNorLatest ==
  \E e \in Range(sink) :
    \E k \in DOMAIN e.alert.whales, i \in Live(e.alert.window, e.currentTime) :
      /\ e.alert.window[i].walletAddress = e.alert.whales[k].walletAddress
      /\ e.alert.window[i].amountUsd > e.alert.whales[k].amountUsd
      /\ e.alert.window[i].timestamp > e.alert.whales[k].timestamp

\* C7: in every alert totalWhales is the number of wallets with a purchase in
\* the window, totalAmountUsd and totalAmountSol are the sums of the first
\* purchase of each of these wallets, and firstPurchaseTime and lastPurchaseTime
\* are the least and the greatest timestamp of these first purchases.
AggregatesOverRepresentatives ==
  \A e \in Range(sink) :
    LET a == e.alert
        wallets == LiveWallets(a.window, e.currentTime)
        rep == [w \in wallets |-> a.window[FirstLive(a.window, e.currentTime, w)]]
    IN /\ a.totalWhales = Cardinality(wallets)
       /\ a.totalWhales = Len(a.whales)
       /\ a.totalAmountUsd = SumOver(wallets, [w \in wallets |-> rep[w].amountUsd])
       /\ a.totalAmountSol = SumOver(wallets, [w \in wallets |-> rep[w].amountSol])
       /\ wallets # {} =>
            /\ a.firstPurchaseTime.valid /\ a.lastPurchaseTime.valid
            /\ \E w \in wallets : rep[w].timestamp = a.firstPurchaseTime.time
            /\ \E w \in wallets : rep[w].timestamp = a.lastPurchaseTime.time
            /\ \A w \in wallets : /\ a.firstPurchaseTime.time <= rep[w].timestamp
                                  /\ rep[w].timestamp <= a.lastPurchaseTime.time

\* An alert whose window holds a further purchase of one of its whales, left
\* out of the totals.
RepeatPurchaseNotAdded ==
  \E e \in Range(sink) :
    LET live == Live(e.alert.window, e.currentTime)
    IN /\ \E i \in live : e.alert.window[i] \notin Range(e.alert.whales)
       /\ e.alert.totalAmountUsd
            < SumOver(live, [i \in live |-> e.alert.window[i].amountUsd])

\* The alert of the scenario: token T, two whales, $300.
IsScenarioAlert(x) ==
  /\ x.tokenMint = "T"
  /\ x.totalWhales = 2
  /\ x.totalAmountUsd = 300
  /\ {x.whales[k].walletAddress : k \in DOMAIN x.whales} = {"W1", "W2"}

\* C8: with a threshold of 2 and a window of 15 minutes, W1 buying T for $100
\* at minute 0 and W2 buying T for $200 at minute 5, the evaluation at minute 6
\* that sees both purchases finds the consensus (T, 2, $300) and its cycle, when
\* it ends within that minute, leaves exactly that one alert in the sink; no
\* evaluation after the purchase of W3 at minute 20 adds an alert (at minute 20
\* it counts W2 and W3, at minute 21 W3 alone): the sink never holds more than
\* one.
EndToEndScenario ==
  [][ /\ \A c \in CycleIds :
           (/\ cycles[c].pc = "fetch" /\ cycles'[c].pc # "fetch"
            /\ now = StartOfTime + 6
            /\ {"W1", "W2"} \subseteq
                 {p.walletAddress : p \in Range(recentWhalePurchases["T"])})
           => /\ cycles'[c].pc = "analyze"
              /\ \A x \in Found(cycles'[c]) : IsScenarioAlert(x)
      /\ \A c \in CycleIds :
           (Completes(c) /\ cycles[c].currentTime = StartOfTime + 6
              /\ now = StartOfTime + 6 /\ Found(cycles[c]) # {})
           => /\ Len(sink') = 1
              /\ IsScenarioAlert(sink'[1].alert)
      /\ \A e \in Range(sink') : e.currentTime = StartOfTime + 6 => IsScenarioAlert(e.alert)
      /\ Len(sink') <= 1
    ]_vars

\* The scenario has run to its end: the alert of minute 6 is the only alert, the
\* purchase of W3 is in the window of T and the cycle that put it there has
\* ended.
ScenarioCompleted ==
  /\ Len(sink) = 1
  /\ IsScenarioAlert(sink[1].alert)
  /\ sink[1].currentTime = StartOfTime + 6
  /\ \E p \in Range(recentWhalePurchases["T"]) : p.walletAddress = "W3"
  /\ \A c \in CycleIds : cycles[c].pc = "idle"
  /\ now >= StartOfTime + 20

\* C9: two detection cycles never run at the same time.
NoOverlappingCycles ==
  Cardinality({c \in CycleIds : cycles[c].pc # "idle"}) <= 1

\* C10: once stopMonitoring has returned (and no startMonitoring is under way)
\* the stored purchases and alertedConsensus do not change and no alert is
\* given to the sink.
StopIsFinal ==
  [][ (~isMonitoring /\ startCount > 0 /\ startsInFlight = 0) =>
        UNCHANGED <<recentWhalePurchases, tokenOrder, alertedConsensus, sink>>
    ]_vars

\* C13: lastCheckedTimes of a wallet is never advanced past a purchase of that
\* wallet that was not ingested: when a wallet check moves the entry forward,
\* every purchase of the wallet on the chain between the old and the new entry
\* that parses, reaches the floor and has not expired is among the stored
\* purchases (so that a purchase whose details could not be fetched is asked
\* for again by the next cycle).
NeverAdvancedPastUnfetched ==
  [][ \A c \in CycleIds, w \in Wallets :
        (/\ cycles[c].pc = "fetch"
         /\ w \in cycles[c].checking
         /\ w \notin cycles'[c].checking
         /\ lastCheckedTimes'[w] # lastCheckedTimes[w])
        => \A tx \in chain :
             (/\ tx.wallet = w
              /\ tx.blockTime > cycles[c].lastChecked[w]
              /\ tx.blockTime <= lastCheckedTimes'[w]
              /\ now - tx.blockTime <= consensusTimeWindow
              /\ ValidPurchases(<<tx>>, {tx.signature}, w, MIN_PURCHASE_USD,
                                [m \in MintKeys |-> "symbol"]) # <<>>)
             => \E p \in Range(recentWhalePurchases'[tx.mint]) :
                  p.signature = tx.signature
    ]_vars

\* C14: at every evaluation the stored purchases of a token hold no purchase
\* older than the window (the evaluation purges the stored list as the
\* insertion does).
StoredWindowPurged ==
  \A ev \in Evaluated :
    \A i \in DOMAIN ev.consensus.window :
      ev.currentTime - ev.consensus.window[i].timestamp <= consensusTimeWindow

\* C15: keeping the expired purchases (and the emptied windows) in the store
\* cannot be observed: every alert is one that a detector which drops expired
\* purchases and emptied windows gives too, so the window an alert was
\* evaluated from holds at least one purchase that has not expired.
RetentionUnobservable ==
  \A e \in Range(sink) : Live(e.alert.window, e.currentTime) # {}

\* C19: once startMonitoring has loaded the configuration, the threshold in
\* force is at least 1, whatever minWhalesForConsensus the file holds.
EffectiveMinWhalesAtLeastOne ==
  startCount > 0 => MIN_WHALES_FOR_CONSENSUS >= 1

\* C17: no operation removes an id from alertedConsensus, neither
\* stopMonitoring nor a later startMonitoring nor addManualWallet; a consensus
\* found again after a restart is suppressed: it adds no alert to the one given
\* before.
FiredSignalsOnlyGrow ==
  [][ /\ alertedConsensus \subseteq alertedConsensus'
      /\ \A x \in suppressed' \ suppressed :
           /\ ConsensusId(x) \in alertedConsensus
           /\ AlertsFor(sink', x.tokenMint, x.totalWhales)
                = AlertsFor(sink, x.tokenMint, x.totalWhales)
           /\ AlertsFor(sink, x.tokenMint, x.totalWhales) # {}
    ]_vars

\* A consensus alerted under the first startMonitoring was found again after
\* stopMonitoring, a second startMonitoring and an addManualWallet, and was not
\* alerted again.
SuppressedAcrossRestart ==
  \E e \in Range(sink), again \in suppressed :
    /\ e.run = 1
    /\ again.run = 2
    /\ ConsensusId(again) = ConsensusId(e.alert)
    /\ "W2" \in Range(allMonitoredWallets)
    /\ Cardinality(AlertsFor(sink, again.tokenMint, again.totalWhales)) = 1

\* C18: a transaction without SOL spent or without the mint of the token that
\* was bought leaves no purchase in any window and no alert: every stored
\* purchase is a purchase of a token, with SOL spent, and every alert is for a
\* token.
MalformedNeverCounted ==
  /\ \A m \in MintKeys :
       \A p \in Range(recentWhalePurchases[m]) : p.tokenMint \in Tokens /\ p.amountSol > 0
  /\ \A e \in Range(sink) : e.alert.tokenMint \in Tokens

\* C20: no stored purchase has an amountUsd below MIN_PURCHASE_USD, and a
\* wallet check whose transaction details arrived returns the purchase of every
\* transaction that parses to an amountUsd of MIN_PURCHASE_USD or more, the
\* floor itself included, and of no other.
FloorInclusive ==
  /\ \A m \in MintKeys :
       \A p \in Range(recentWhalePurchases[m]) : p.amountUsd >= MIN_PURCHASE_USD
  /\ \A tx \in chain :
       LET purchase == parseRealTokenPurchase(tx, tx.wallet, "symbol")
           returned == ValidPurchases(<<tx>>, {tx.signature}, tx.wallet, MIN_PURCHASE_USD,
                                      [m \in MintKeys |-> "symbol"])
       IN IF purchase # <<>> /\ purchase[1].amountUsd >= MIN_PURCHASE_USD
          THEN returned = purchase
          ELSE returned = <<>>

\* The purchase of exactly $50 is stored; the purchase of $49 was parsed (its
\* token was looked up) and is not.
AtFloorStoredBelowFloorDropped ==
  /\ \E p \in Range(recentWhalePurchases["T"]) : p.amountUsd = MIN_PURCHASE_USD
  /\ \E tx \in chain :
       /\ tx.mint = "U"
       /\ parseRealTokenPurchase(tx, tx.wallet, "symbol")[1].amountUsd = MIN_PURCHASE_USD - 1
  /\ tokenInfoCache["U"] # Null
  /\ recentWhalePurchases["U"] = <<>>
  /\ "U" \notin Range(tokenOrder)

\* C11: a wallet whose check fails does not stop its cycle: whatever a wallet
\* check meets, the cycle goes on waiting for the other wallets of the batch and
\* the stored purchases of the other wallets stay; when the last wallet has
\* returned the evaluation runs and takes up a token that qualifies; and when
\* no cycle is in flight every token whose stored purchases are all unexpired
\* and come from enough wallets has had its alert.
FailureIsolated ==
  [][ /\ \A c \in CycleIds :
           (cycles[c].pc = "fetch" /\ cycles[c].checking # {} /\ cycles'[c] # cycles[c])
           => /\ cycles'[c].pc = "fetch"
              /\ \E w \in cycles[c].checking :
                   /\ cycles'[c].checking = cycles[c].checking \ {w}
                   /\ \A m \in MintKeys :
                        \A p \in Range(recentWhalePurchases[m]) :
                          (p.walletAddress # w /\ now - p.timestamp <= consensusTimeWindow)
                            => p \in Range(recentWhalePurchases'[m])
      /\ \A c \in CycleIds :
           (cycles[c].pc = "fetch" /\ cycles[c].checking = {} /\ cycles'[c] # cycles[c]
              /\ cycles[c].batchIndex = Len(cycles[c].batches))
           => ((\E m \in Range(tokenOrder) :
                  Cardinality(LiveWallets(recentWhalePurchases[m], now))
                    >= MIN_WHALES_FOR_CONSENSUS)
               => cycles'[c].pc = "analyze")
      /\ (cycleCount' >= 1 /\ \A c \in CycleIds : cycles'[c].pc = "idle")
         => \A m \in Range(tokenOrder') :
              LET window == recentWhalePurchases'[m]
                  n == Cardinality(LiveWallets(window, now'))
              IN (/\ Live(window, now') = DOMAIN window
                  /\ n >= MIN_WHALES_FOR_CONSENSUS')
                 => /\ <<m, n>> \in alertedConsensus'
                    /\ AlertsFor(sink', m, n) # {}
    ]_vars

\* In the one cycle so far the check of W1 failed (its purchase was there to be
\* fetched and its last-checked time never moved); the purchase of W2 was
\* stored, the evaluation ran and the alert of T with W2 alone was written.
FailedWalletIsolated ==
  /\ cycleCount = 1
  /\ \A c \in CycleIds : cycles[c].pc = "idle"
  /\ {"W1", "W2"} \subseteq Range(allMonitoredWallets)
  /\ \E tx \in chain : tx.wallet = "W1" /\ tx.blockTime = StartOfTime
  /\ lastCheckedTimes["W1"] < StartOfTime
  /\ {p.walletAddress : p \in Range(recentWhalePurchases["T"])} = {"W2"}
  /\ \E e \in Range(emitted) :
       /\ e.alert.tokenMint = "T"
       /\ {e.alert.whales[k].walletAddress : k \in DOMAIN e.alert.whales} = {"W2"}

StrongestFirstInCycle ==
  cycleCount <= 1 =>
    \A i, j \in DOMAIN sink :
      i < j => sink[i].alert.totalWhales * 100 + sink[i].alert.totalAmountUsd
                 >= sink[j].alert.totalWhales * 100 + sink[j].alert.totalAmountUsd

\* The amountUsd of every whale of the consensus is its amountSol at the price
\* the consensus was evaluated with, and the total is the sum of these amounts.
PricedAt(consensus) ==
  /\ \A i \in DOMAIN consensus.whales :
       consensus.whales[i].amountUsd
         = (consensus.whales[i].amountSol * consensus.currentSolPrice) \div 1000
  /\ consensus.totalAmountUsd
       = SumSeq([i \in DOMAIN consensus.whales |->
                   (consensus.whales[i].amountSol * consensus.currentSolPrice) \div 1000])

\* C21: a cycle of the enhanced monitor takes the SOL price current when it
\* starts; every purchase a wallet check of the cycle stores has
\* amountUsd = amountSol * that price; every consensus a cycle holds and every
\* alert of the sink carries the amounts and the total at the price of the
\* cycle (or of the instant check set by the cycle) that evaluated it, whatever
\* the price the purchases were stored with.
PriceOfTheCycle ==
  [][/\ cycleCount' > cycleCount =>
          \E c \in CycleIds : /\ cycles[c].pc = "idle"
                              /\ cycles'[c].pc = "fetch"
                              /\ cycles'[c].currentSolPrice = currentPrice
     /\ \A c \in CycleIds :
          (cycles[c].pc = "fetch" /\ cycles'[c].checking # cycles[c].checking) =>
             \A m \in MintKeys :
               \A p \in Range(recentWhalePurchases'[m]) \ Range(recentWhalePurchases[m]) :
                 p.amountUsd = (p.amountSol * cycles[c].currentSolPrice) \div 1000
     /\ \A c \in CycleIds :
          \A consensus \in Range(cycles'[c].consensusTokens) :
            PricedAt(consensus) /\ consensus.currentSolPrice = cycles'[c].currentSolPrice
     /\ \A e \in Range(sink') : PricedAt(e.alert)
     /\ \A i \in DOMAIN sink' \ DOMAIN sink :
          \/ \E c \in CycleIds : /\ cycles'[c] # cycles[c]
                                 /\ cycles[c].pc \in {"analyze", "fire"}
                                 /\ sink'[i].alert.currentSolPrice = cycles[c].currentSolPrice
          \/ \E k \in InstantIds : /\ instantChecks'[k] # instantChecks[k]
                                   /\ instantChecks[k].pc = "instant"
                                   /\ sink'[i].alert.currentSolPrice
                                        = instantChecks[k].currentSolPrice
    ]_vars

\* An alert of a cycle that took the price of $300: one of its whales was stored
\* in an earlier cycle at the price of $200 and is given at $300, as is the total.
StoredAtEarlierPrice ==
  \E e \in Range(sink) :
    /\ e.alert.currentSolPrice = 300
    /\ e.alert.totalWhales = 2
    /\ e.alert.totalAmountUsd = 450
    /\ \E i \in DOMAIN e.alert.window, k \in DOMAIN e.alert.whales :
         /\ e.alert.window[i].signature = e.alert.whales[k].signature
         /\ e.alert.window[i].amountUsd = (e.alert.window[i].amountSol * 200) \div 1000
         /\ e.alert.whales[k].amountUsd = (e.alert.whales[k].amountSol * 300) \div 1000

\* The time between the first and the last purchase of a consensus is known and
\* at most `minutes`.
SpanAtMost(consensus, minutes) ==
  /\ consensus.firstPurchaseTime.valid /\ consensus.lastPurchaseTime.valid
  /\ consensus.lastPurchaseTime.time - consensus.firstPurchaseTime.time <= minutes

\* The average purchase of the whales of a consensus is at least `amount`.
PerWhaleAtLeast(consensus, amount) ==
  /\ consensus.totalWhales > 0
  /\ consensus.totalAmountUsd >= amount * consensus.totalWhales

\* C22: calculateRiskScore gives the sum of the whale-count tier (>= 5: 30,
\* >= 3: 20, else 10), the total-USD tier (>= 10000: 30, >= 5000: 20, else 10),
\* the time-span tier (<= 5 min: 30, <= 15 min: 20, else 10) and the bonus of the
\* average purchase (>= 2000: 10, >= 1000: 5, else 0); the score lies within
\* 0..100; the level is VERY HIGH iff score >= 80, HIGH iff 60 <= score < 80,
\* MEDIUM iff 40 <= score < 60, LOW otherwise.
RiskScoreAsSpecified ==
  call.fn = "calculateRiskScore" =>
    LET consensus == call.consensus
        score == call.result.score
        level == call.result.level
    IN /\ score = (IF consensus.totalWhales >= 5 THEN 30
                   ELSE IF consensus.totalWhales >= 3 THEN 20 ELSE 10)
                  + (IF consensus.totalAmountUsd >= 10000 THEN 30
                     ELSE IF consensus.totalAmountUsd >= 5000 THEN 20 ELSE 10)
                  + (IF SpanAtMost(consensus, 5) THEN 30
                     ELSE IF SpanAtMost(consensus, 15) THEN 20 ELSE 10)
                  + (IF PerWhaleAtLeast(consensus, 2000) THEN 10
                     ELSE IF PerWhaleAtLeast(consensus, 1000) THEN 5 ELSE 0)
       /\ score \in 0..100
       /\ level = "VERY HIGH" <=> score >= 80
       /\ level = "HIGH" <=> (60 <= score /\ score < 80)
       /\ level = "MEDIUM" <=> (40 <= score /\ score < 60)
       /\ level = "LOW" <=> score < 40

\* Five whales with $10000 in all (an average of $2000) within five minutes
\* score 100, VERY HIGH.
RiskScoreOfHundred ==
  /\ call.fn = "calculateRiskScore"
  /\ call.consensus.totalWhales = 5
  /\ call.consensus.totalAmountUsd = 10000
  /\ call.consensus.lastPurchaseTime.time - call.consensus.firstPurchaseTime.time = 5
  /\ call.result = [score |-> 100, level |-> "VERY HIGH"]

\* C23: generateTradingSignal gives confidence = min(95, 50 + 10 * totalWhales
\* + the bonus of the average purchase (>= 2000: 20, >= 1000: 10) + the bonus of
\* the time span (<= 5 min: 15, <= 15 min: 10)), never more than 95 whatever the
\* number of whales; the type is STRONG BUY iff confidence >= 80, BUY iff
\* 70..79, WEAK BUY iff 60..69, HOLD otherwise.
TradingSignalAsSpecified ==
  call.fn = "generateTradingSignal" =>
    LET consensus == call.consensus
        confidence == call.result.confidence
        type == call.result.type
        uncapped == 50 + 10 * consensus.totalWhales
                    + (IF PerWhaleAtLeast(consensus, 2000) THEN 20
                       ELSE IF PerWhaleAtLeast(consensus, 1000) THEN 10 ELSE 0)
                    + (IF SpanAtMost(consensus, 5) THEN 15
                       ELSE IF SpanAtMost(consensus, 15) THEN 10 ELSE 0)
    IN /\ confidence = (IF uncapped <= 95 THEN uncapped ELSE 95)
       /\ confidence <= 95
       /\ type = "STRONG BUY" <=> confidence >= 80
       /\ type = "BUY" <=> confidence \in 70..79
       /\ type = "WEAK BUY" <=> confidence \in 60..69
       /\ type = "HOLD" <=> confidence < 60

\* Eight whales with an average of $2000 within five minutes (50 + 80 + 20 + 15)
\* are given a confidence of 95, STRONG BUY.
ConfidenceCapped ==
  /\ call.fn = "generateTradingSignal"
  /\ call.consensus.totalWhales = 8
  /\ call.consensus.totalAmountUsd = 16000
  /\ call.consensus.lastPurchaseTime.time - call.consensus.firstPurchaseTime.time = 5
  /\ call.result = [confidence |-> 95, type |-> "STRONG BUY"]

\* C24: the individual alert is given once for each purchase of at least
\* MIN_PURCHASE_USD and for no purchase below it: no alert is below the floor
\* and no transaction is alerted twice, in whatever cycles it is read.
IndividualAlertOnce ==
  /\ \A i \in DOMAIN purchaseAlerts : purchaseAlerts[i].amountUsd >= MIN_PURCHASE_USD
  /\ \A i, j \in DOMAIN purchaseAlerts :
       purchaseAlerts[i].signature = purchaseAlerts[j].signature => i = j

RECURSIVE Flatten(_)
Flatten(ss) == IF ss = <<>> THEN <<>> ELSE Head(ss) \o Flatten(Tail(ss))

\* C25: the batches of a cycle hold every address of the wallet list, each
\* once, the wallets being checked are those of the batch in hand, and no
\* manual wallet with enabled = false is among the wallets polled.
PolledOnceEnabledOnly ==
  \A c \in CycleIds :
    cycles[c].pc = "fetch" =>
      LET polled == Flatten(cycles[c].batches)
      IN /\ \A i, j \in DOMAIN polled : polled[i] = polled[j] => i = j
         /\ Range(polled) = Range(allMonitoredWallets)
         /\ cycles[c].checking \subseteq Range(cycles[c].batches[cycles[c].batchIndex])
         /\ \A i \in DOMAIN configFile.manualWallets :
              ~configFile.manualWallets[i].enabled =>
                 configFile.manualWallets[i].address \notin Range(polled)

\* C26: the sink does not feed back into the detector.  In a step in which an
\* alert is written (triggerWhaleConsensusAlert, with its lookup of the token
\* metrics, its scores and its output) the stored purchases and
\* lastCheckedTimes stay as they are, no id leaves alertedConsensus, and the
\* only ids that enter it are those of the alerts the loop of the caller hands
\* to the sink next.
NoFeedbackFromSink ==
  [][Len(emitted') > Len(emitted) =>
       /\ recentWhalePurchases' = recentWhalePurchases
       /\ tokenOrder' = tokenOrder
       /\ lastCheckedTimes' = lastCheckedTimes
       /\ alertedConsensus \subseteq alertedConsensus'
       /\ alertedConsensus' \ alertedConsensus
            \subseteq {ConsensusId(sink'[i].alert) : i \in DOMAIN sink' \ DOMAIN sink}
    ]_vars

\* Two alerts have been written, and the purchases the first was evaluated on
\* are stored as they were, its id is in alertedConsensus and lastCheckedTimes
\* of its whale is at the purchase.
WrittenAndStateKept ==
  /\ Len(emitted) = 2
  /\ recentWhalePurchases[emitted[1].alert.tokenMint] = emitted[1].alert.window
  /\ ConsensusId(emitted[1].alert) \in alertedConsensus
  /\ ConsensusId(emitted[2].alert) \in alertedConsensus
  /\ lastCheckedTimes["W1"] = emitted[1].alert.whales[1].timestamp

\* C27: a detection cycle terminates its fetches.  When every request settles,
\* a cycle that waits for wallet checks eventually stops waiting, and it stops
\* only with every check of the last batch returned and by going on to
\* analyzeWhaleConsensus; a check whose request failed counts as returned.
CycleReachesAnalysis ==
  /\ \A c \in CycleIds : (cycles[c].pc = "fetch") ~> (cycles[c].pc # "fetch")
  /\ [][\A c \in CycleIds :
          cycles[c].pc = "fetch" /\ cycles'[c].pc # "fetch" =>
             /\ cycles[c].checking = {}
             /\ cycles[c].batchIndex = Len(cycles[c].batches)
             /\ cycles'[c] = analyzeWhaleConsensus.cy]_vars

\* A cycle is in its analysis although the check of W1 got no answer
\* (lastCheckedTimes of W1 is still before its purchase): only the purchase of
\* W2 is stored.
AnalysisAfterFailedFetch ==
  \E c \in CycleIds :
    /\ cycles[c].pc = "analyze"
    /\ "W1" \in Range(allMonitoredWallets)
    /\ lastCheckedTimes["W1"] < StartOfTime
    /\ Len(recentWhalePurchases["T"]) = 1
    /\ recentWhalePurchases["T"][1].walletAddress = "W2"

\* The cache and the lifetime of its entries that a lookup works with.
CacheOf(lookup) ==
  IF lookup.fn = "getTokenMarketData" THEN marketCapCache ELSE socialAnalysisCache

\* Lookup k is called in this step / gets the answer to its requests in this step.
Called(k) == call[k].pc # "fetching" /\ call'[k] # call[k]
Answered(k) == call[k].pc = "fetching" /\ call'[k].pc = "returned"

\* The entry a lookup called in this step finds for its token.
EntryFound(k) == CacheOf(call'[k])[call'[k].tokenMint]

\* A lookup called in this step is served from the cache: it returns the data of
\* the entry without a request.
ServedFromCache(k) ==
  /\ EntryFound(k) # NoEntry
  /\ call'[k].pc = "returned"
  /\ call'[k].result = EntryFound(k).data

\* The answer of a lookup is stored for the lifetime of its cache, counted from
\* the answer, when it has data; nothing is stored when it has none.
StoredIfData(k) ==
  /\ marketCapCache' =
       IF call'[k].fn = "getTokenMarketData" /\ call'[k].result # NoData
       THEN [marketCapCache EXCEPT ![call'[k].tokenMint] =
               [data |-> call'[k].result, expires |-> now + MARKET_CACHE_MINUTES]]
       ELSE marketCapCache
  /\ socialAnalysisCache' =
       IF call'[k].fn = "getSocialMediaData" /\ call'[k].result # NoData
       THEN [socialAnalysisCache EXCEPT ![call'[k].tokenMint] =
               [data |-> call'[k].result, expires |-> now + SOCIAL_CACHE_MINUTES]]
       ELSE socialAnalysisCache

\* C28 (as stated): the two caches honour their lifetimes.  A lookup is served
\* from the cache exactly when the entry of its token expires in the future; a
\* lookup that finds an entry at or after its expiry makes its requests again;
\* an answer without data returns null and stores nothing, and no entry ever
\* holds null.
CachesHonourTheirTTL ==
  [][\A k \in LookupIds :
       /\ Called(k) =>
            /\ UNCHANGED <<marketCapCache, socialAnalysisCache>>
            /\ IF EntryFound(k) # NoEntry /\ EntryFound(k).expires > now
               THEN ServedFromCache(k)
               ELSE /\ ~ServedFromCache(k)
                    /\ EntryFound(k) # NoEntry => call'[k].pc = "fetching"
       /\ Answered(k) => StoredIfData(k)
       /\ \A m \in MintKeys :
            /\ marketCapCache'[m] # NoEntry => marketCapCache'[m].data # NoData
            /\ socialAnalysisCache'[m] # NoEntry => socialAnalysisCache'[m].data # NoData
    ]_vars

\* C28 (amended): as above, and a lookup that finds no entry makes its requests
\* too, but getSocialMediaData makes requests only while the social analysis is
\* enabled; while it is disabled, a lookup that is not served from the cache
\* returns null at once.
CachesHonourTheirTTLWhenEnabled ==
  [][\A k \in LookupIds :
       /\ Called(k) =>
            /\ UNCHANGED <<marketCapCache, socialAnalysisCache>>
            /\ IF EntryFound(k) # NoEntry /\ EntryFound(k).expires > now
               THEN ServedFromCache(k)
               ELSE IF call'[k].fn = "getSocialMediaData" /\ ~enableSocialAnalysis
                    THEN call'[k].pc = "returned" /\ call'[k].result = NoData
                    ELSE call'[k].pc = "fetching"
       /\ Answered(k) => StoredIfData(k)
       /\ \A m \in MintKeys :
            /\ marketCapCache'[m] # NoEntry => marketCapCache'[m].data # NoData
            /\ socialAnalysisCache'[m] # NoEntry => socialAnalysisCache'[m].data # NoData
    ]_vars

\* Market data fetched when the monitor was constructed was served from the
\* cache one minute before its expiry, and the lookup at the minute of the
\* expiry fetched again.
ServedThenFetchedAgain ==
  /\ call[1].fn = "getTokenMarketData" /\ call[1].pc = "returned"
  /\ call[1].calledAt = StartOfTime + MARKET_CACHE_MINUTES - 1
  /\ call[1].result = FetchedAt(StartOfTime)
  /\ call[2].fn = "getTokenMarketData" /\ call[2].pc = "returned"
  /\ call[2].calledAt = StartOfTime + MARKET_CACHE_MINUTES
  /\ call[2].result = FetchedAt(StartOfTime + MARKET_CACHE_MINUTES)
  /\ marketCapCache["T"].expires = StartOfTime + 2 * MARKET_CACHE_MINUTES

\* The floor of the check interval of the monitor whose loadManualWallets ran.
FloorOfLoaded ==
  IF call = "WhaleConsensusMonitor.loadManualWallets" THEN 30000 ELSE 10000

\* C29: once the configuration is loaded, CHECK_INTERVAL is at least the floor
\* (30 000 ms in WhaleConsensusMonitor, 10 000 ms in the enhanced monitor)
\* whatever checkIntervalSeconds is configured, zero and negative included, and
\* it is the configured interval whenever that is not below the floor.
IntervalFloor ==
  call # Null =>
    /\ CHECK_INTERVAL >= FloorOfLoaded
    /\ configFile.settings.checkIntervalSeconds * 1000 >= FloorOfLoaded =>
         CHECK_INTERVAL = configFile.settings.checkIntervalSeconds * 1000

\* The enhanced monitor has loaded a negative interval and runs at its floor.
NegativeIntervalClamped ==
  /\ call = "EnhancedUltraFastWhaleMonitor.loadManualWallets"
  /\ configFile.settings.checkIntervalSeconds < 0
  /\ CHECK_INTERVAL = 10000

\* The deliveries of a signal to the sink, and the instant checks that have
\* added its id and wait for their lookups before they deliver it.
Deliveries(consensusId) == {i \in DOMAIN sink : ConsensusId(sink[i].alert) = consensusId}

InstantHolders(consensusId) ==
  {k \in InstantIds :
     /\ instantChecks[k].pc = "instant"
     /\ <<tokenOrder[instantChecks[k].idx], Len(instantChecks[k].pending)>> = consensusId}

\* C30: in the enhanced monitor, with instant checks and detection cycles
\* interleaved at their awaits, no pair (tokenMint, totalWhales) reaches the
\* sink twice, and every id in alertedConsensus was written by exactly one of
\* them: the one that delivered the signal or is about to.
EnhancedAtMostOnce ==
  /\ \A i, j \in DOMAIN sink :
       ConsensusId(sink[i].alert) = ConsensusId(sink[j].alert) => i = j
  /\ \A i \in DOMAIN sink : ConsensusId(sink[i].alert) \in alertedConsensus
  /\ \A consensusId \in alertedConsensus :
       Cardinality(Deliveries(consensusId)) + Cardinality(InstantHolders(consensusId)) = 1

\* An instant check has added the id of a signal and waits for its lookups,
\* while a detection cycle waits for the lookups of the same signal.
InstantAndCycleOnSameSignal ==
  \E c \in CycleIds, k \in InstantIds :
    /\ instantChecks[k].pc = "instant"
    /\ cycles[c].pc = "analyze"
    /\ tokenOrder[cycles[c].idx] = tokenOrder[instantChecks[k].idx]
    /\ Len(cycles[c].pending) = Len(instantChecks[k].pending)
    /\ <<tokenOrder[cycles[c].idx], Len(cycles[c].pending)>> \in alertedConsensus

\* a <= b of two Date values: false when either is an invalid Date (NaN).
DateAtMost(a, b) == a.valid /\ b.valid /\ a.time <= b.time

\* C31: every alert given to the sink is well formed: totalWhales is the length
\* of whales, the whales are of pairwise distinct wallets, every whale bought
\* the token of the alert, totalWhales is at least the configured
\* minWhalesForConsensus, and firstPurchaseTime <= lastPurchaseTime.
AlertWellFormed ==
  \A e \in Range(sink) :
    LET alert == e.alert
    IN /\ alert.totalWhales = Len(alert.whales)
       /\ \A i, j \in DOMAIN alert.whales :
            alert.whales[i].walletAddress = alert.whales[j].walletAddress => i = j
       /\ \A i \in DOMAIN alert.whales : alert.whales[i].tokenMint = alert.tokenMint
       /\ alert.totalWhales >= configFile.settings.minWhalesForConsensus
       /\ DateAtMost(alert.firstPurchaseTime, alert.lastPurchaseTime)

\* C32: at an evaluation a wallet is among the unique whales of a token exactly
\* when one of its stored purchases of the token has not expired, and the
\* purchase that stands for it has not expired while every purchase of the
\* wallet stored before it has: when the first stored purchase of a wallet
\* expires, its next one takes over.
MembershipFollowsLiveEvents ==
  \A ev \in Evaluated :
    LET whales == ev.consensus.whales
        window == ev.consensus.window
        expired(p) == ev.currentTime - p.timestamp > consensusTimeWindow
    IN /\ \A w \in Wallets :
            (\E k \in DOMAIN whales : whales[k].walletAddress = w)
              <=> (\E i \in DOMAIN window : window[i].walletAddress = w /\ ~expired(window[i]))
       /\ \A k \in DOMAIN whales :
            \E i \in DOMAIN window :
              /\ window[i] = whales[k]
              /\ ~expired(window[i])
              /\ \A j \in 1..(i - 1) :
                   window[j].walletAddress = whales[k].walletAddress => expired(window[j])

\* An alert in which a wallet is counted although its first stored purchase had
\* expired at the evaluation: a later purchase stands for it.
LaterPurchaseTookOver ==
  \E e \in Range(sink) :
    \E k \in DOMAIN e.alert.whales, j \in DOMAIN e.alert.window :
      /\ e.alert.window[j].walletAddress = e.alert.whales[k].walletAddress
      /\ e.currentTime - e.alert.window[j].timestamp > consensusTimeWindow
      /\ e.alert.whales[k].timestamp > e.alert.window[j].timestamp
      /\ e.currentTime - e.alert.whales[k].timestamp <= consensusTimeWindow


\* C33: storing an event a second time changes nothing: in every state and for
\* every token the consensus record built from the stored purchases (unique
\* whales, their count, the totals, the dates) is the one built from the stored
\* purchases with every event kept once, so the token qualifies and gets the
\* consensus id it would have got; and every evaluation on record is the one
\* its window without the repetitions gives.
DuplicateIngestionHarmless ==
  /\ \A m \in MintKeys :
       UniquePurchases(recentWhalePurchases[m], now)
         = UniquePurchases(Dedup(recentWhalePurchases[m], <<>>), now)
  /\ \A ev \in Evaluated :
       LET once == UniquePurchases(Dedup(ev.consensus.window, <<>>), ev.currentTime)
           built == BuildConsensus(ev.consensus.tokenMint, once)
       IN /\ ev.consensus.whales = once
          /\ ev.consensus.totalWhales = built.totalWhales
          /\ ev.consensus.totalAmountSol = built.totalAmountSol
          /\ ev.consensus.totalAmountUsd = built.totalAmountUsd
          /\ ConsensusId(ev.consensus) = ConsensusId(built)

\* An alert was emitted from a window that held the same event twice.
AlertFromRepeatedEvent ==
  \E e \in Range(sink) :
    \E i, j \in DOMAIN e.alert.window :
      /\ i < j
      /\ e.alert.window[i] = e.alert.window[j]
      /\ e.currentTime - e.alert.window[i].timestamp <= consensusTimeWindow

\* C34: every whale of an alert of the enhanced monitor has an amountUsd of at
\* least MIN_PURCHASE_USD: the floor applied when the purchase was ingested
\* holds for the amount recalculated with the SOL price of the evaluation.
FloorPreservedInAlerts ==
  \A e \in Range(sink) :
    \A i \in DOMAIN e.alert.whales : e.alert.whales[i].amountUsd >= MIN_PURCHASE_USD

\* C35: every alert given to the sink of WhaleConsensusMonitor has a risk score
\* of at least 40, so that calculateRiskScore never reports the level LOW for
\* it: the purchases that stand for its whales lie within the window of 15
\* minutes.
LowNeverReported ==
  \A e \in Range(sink) :
    /\ calculateRiskScore(e.alert).score >= 40
    /\ calculateRiskScore(e.alert).level # "LOW"

\* C36: when the file asks for two whales or more, every alert given to the
\* sink of WhaleConsensusMonitor has a confidence of at least 80 and the
\* trading signal STRONG BUY: BUY, WEAK BUY and HOLD are given for no alert.
SignalAlwaysStrongBuy ==
  configFile.settings.minWhalesForConsensus >= 2 =>
    \A e \in Range(sink) :
      /\ generateTradingSignal(e.alert).confidence >= 80
      /\ generateTradingSignal(e.alert).type = "STRONG BUY"

\* An alert of two whales that owes its STRONG BUY to the purchases being
\* within the window: without the clustering bonus its confidence is below 80.
StrongBuyByClustering ==
  /\ configFile.settings.minWhalesForConsensus >= 2
  /\ \E e \in Range(sink) :
       /\ generateTradingSignal(e.alert).type = "STRONG BUY"
       /\ e.alert.totalWhales = 2
       /\ ~AverageAtLeast(e.alert, 1000)

\* C37: at most one interval timer is active, the one whose handle is stored
\* in monitoringInterval, and when the monitor is stopped (isMonitoring false
\* and no startMonitoring under way) no interval timer is active.
SingleTimer ==
  /\ Cardinality(activeIntervals) <= 1
  /\ activeIntervals \subseteq {monitoringInterval}
  /\ (~isMonitoring /\ startsInFlight = 0) => activeIntervals = {}

\* How often a purchase is in a list of stored purchases.
Occurrences(purchases, p) == Cardinality({i \in DOMAIN purchases : purchases[i] = p})

\* C38: while the monitor runs, lastCheckedTimes of a wallet never decreases,
\* and no purchase with a block time at or before the stored last-checked time
\* of its wallet is ingested (again): whatever a step adds to the stored
\* purchases is later than the entry of its wallet.
CursorMonotone ==
  [][ (isMonitoring /\ isMonitoring') =>
        /\ \A w \in Wallets : lastCheckedTimes'[w] >= lastCheckedTimes[w]
        /\ \A m \in MintKeys :
             \A p \in Range(recentWhalePurchases'[m]) :
               Occurrences(recentWhalePurchases'[m], p) > Occurrences(recentWhalePurchases[m], p)
                 => p.timestamp > lastCheckedTimes[p.walletAddress]
    ]_vars

====
